---- MODULE Spec2Model ----
(***************************************************************************)
(* The ranking and deduplication engine of The Alfred Report, as run by    *)
(* the stock-portfolio and private-market news skills                      *)
(* (scripts/stock_news_skill.py, scripts/private_market_skill.py).         *)
(*                                                                         *)
(* Representation.  A Python str is a sequence of one-character strings,   *)
(* so that lower(), strip(), regular-expression clean-up and substring     *)
(* search are computed and not assumed.  A URL is held as the components   *)
(* urllib.parse.urlparse yields (scheme, host, path, query, fragment); the *)
(* query is the sequence of name/value pairs that parse_qs reads.  A       *)
(* canonical URL is the component record of the string urlunparse builds.  *)
(* Calendar dates are day numbers: ISO date strings order as their days.   *)
(* Scores are exact fixed-point numbers: score_story works in units of     *)
(* 1/10000 point, and round(score, 1) yields tenths of a point.            *)
(***************************************************************************)
EXTENDS Integers, Sequences, FiniteSets, TLC

VARIABLES
    vertical,           \* which skill runs: "stocks" or "private"
    ranker_config,      \* contents of config/stocks.news_ranker.yaml
    today,              \* report_date of the current run (day number)
    runs,               \* number of runs started so far
    state_file,         \* content of the file at the state path
    tmp_file,           \* content of the file at the temporary path
    seen_state,         \* in-memory SeenState of the current run: date -> entry
    seen_type,          \* JSON type of the value load_seen_state returned
    pc,                 \* position of get_portfolio_news / get_private_market_news
    idx,                \* index of the next entity of the loop
    results,            \* entity-keyed output list built by the run
    all_included_urls,  \* canonical URLs included so far in the run
    state_written,      \* debug["state_written"]
    last,               \* internals of the latest process_ticker call
    fetched,            \* records the collector has returned so far, over all runs
    probe               \* inputs of the calls a specification makes, kept for its properties

vars == <<vertical, ranker_config, today, runs, state_file, tmp_file, seen_state,
          seen_type, pc, idx, results, all_included_urls, state_written, last,
          fetched, probe>>

(***************************************************************************)
(* Bounds of the model.                                                    *)
(***************************************************************************)
\* Number of raw records the collector returns in all, over the runs followed.
MaxRecords == 3
\* Number of runs of the skill that are followed.
MaxRuns == 2

(***************************************************************************)
(* Strings.                                                                *)
(***************************************************************************)
Min(a, b) == IF a <= b THEN a ELSE b
Max(a, b) == IF a >= b THEN a ELSE b

Get(f, k, default) == IF k \in DOMAIN f THEN f[k] ELSE default

Empty == [x \in {} |-> 0]

UpperToLower ==
  ("A" :> "a") @@ ("B" :> "b") @@ ("C" :> "c") @@ ("D" :> "d") @@ ("E" :> "e") @@
  ("F" :> "f") @@ ("G" :> "g") @@ ("H" :> "h") @@ ("I" :> "i") @@ ("J" :> "j") @@
  ("K" :> "k") @@ ("L" :> "l") @@ ("M" :> "m") @@ ("N" :> "n") @@ ("O" :> "o") @@
  ("P" :> "p") @@ ("Q" :> "q") @@ ("R" :> "r") @@ ("S" :> "s") @@ ("T" :> "t") @@
  ("U" :> "u") @@ ("V" :> "v") @@ ("W" :> "w") @@ ("X" :> "x") @@ ("Y" :> "y") @@
  ("Z" :> "z")

LowerLetters == {UpperToLower[c] : c \in DOMAIN UpperToLower}
Digits == {"0", "1", "2", "3", "4", "5", "6", "7", "8", "9"}
\* the characters the regular expression class \w matches
WordChars == LowerLetters \cup DOMAIN UpperToLower \cup Digits \cup {"_"}
\* the characters the regular expression class \s matches
SpaceChars == {" ", "\t", "\n", "\r"}

\* str.lower()
lower(s) == [i \in 1..Len(s) |-> IF s[i] \in DOMAIN UpperToLower THEN UpperToLower[s[i]] ELSE s[i]]

\* str.lstrip(chars): drops every leading character that is a member of chars
RECURSIVE lstrip(_, _)
lstrip(s, chars) ==
  IF s # <<>> /\ Head(s) \in chars THEN lstrip(Tail(s), chars) ELSE s

\* str.rstrip(chars)
RECURSIVE rstrip(_, _)
rstrip(s, chars) ==
  IF s # <<>> /\ s[Len(s)] \in chars THEN rstrip(SubSeq(s, 1, Len(s) - 1), chars) ELSE s

\* kw in text
Contains(text, kw) ==
  \E i \in 0..(Len(text) - Len(kw)) : \A j \in 1..Len(kw) : text[i + j] = kw[j]

\* re.sub(r'\s+', ' ', s)
RECURSIVE CollapseSpaces(_)
CollapseSpaces(s) ==
  IF s = <<>> THEN <<>>
  ELSE IF Head(s) \in SpaceChars
       THEN <<" ">> \o CollapseSpaces(lstrip(s, SpaceChars))
       ELSE <<Head(s)>> \o CollapseSpaces(Tail(s))

\* length of the title prefix that enters the cluster key
TitleKeyLen == 50

\* the normalised title of process_ticker / process_company
norm_title(title) ==
  LET nopunct == SelectSeq(lower(title), LAMBDA c : c \in WordChars \cup SpaceChars)
      one     == CollapseSpaces(nopunct)
  IN  rstrip(lstrip(one, SpaceChars), SpaceChars)

Prefix(s, n) == SubSeq(s, 1, Min(n, Len(s)))

(***************************************************************************)
(* Source domains.                                                         *)
(***************************************************************************)
DOMAIN_TO_SOURCE_stocks ==
  (<<"r","e","u","t","e","r","s",".","c","o","m">> :> "reuters") @@
  (<<"r","e","u","t","e","r","s",".","c","o",".","u","k">> :> "reuters") @@
  (<<"b","l","o","o","m","b","e","r","g",".","c","o","m">> :> "bloomberg") @@
  (<<"b","l","o","o","m","b","e","r","g",".","c","o",".","u","k">> :> "bloomberg") @@
  (<<"w","s","j",".","c","o","m">> :> "wsj") @@
  (<<"f","t",".","c","o","m">> :> "ft") @@
  (<<"c","n","b","c",".","c","o","m">> :> "cnbc") @@
  (<<"m","a","r","k","e","t","w","a","t","c","h",".","c","o","m">> :> "marketwatch") @@
  (<<"b","a","r","r","o","n","s",".","c","o","m">> :> "barrons") @@
  (<<"s","e","e","k","i","n","g","a","l","p","h","a",".","c","o","m">> :> "seekingalpha") @@
  (<<"b","e","n","z","i","n","g","a",".","c","o","m">> :> "benzinga") @@
  (<<"r","e","d","d","i","t",".","c","o","m">> :> "reddit") @@
  (<<"x",".","c","o","m">> :> "x") @@
  (<<"t","w","i","t","t","e","r",".","c","o","m">> :> "x") @@
  (<<"f","i","n","a","n","c","e",".","y","a","h","o","o",".","c","o","m">> :> "yahoo") @@
  (<<"n","e","w","s",".","g","o","o","g","l","e",".","c","o","m">> :> "google")

DOMAIN_TO_SOURCE_private ==
  (<<"r","e","u","t","e","r","s",".","c","o","m">> :> "reuters") @@
  (<<"r","e","u","t","e","r","s",".","c","o",".","u","k">> :> "reuters") @@
  (<<"b","l","o","o","m","b","e","r","g",".","c","o","m">> :> "bloomberg") @@
  (<<"b","l","o","o","m","b","e","r","g",".","c","o",".","u","k">> :> "bloomberg") @@
  (<<"w","s","j",".","c","o","m">> :> "wsj") @@
  (<<"f","t",".","c","o","m">> :> "ft") @@
  (<<"c","n","b","c",".","c","o","m">> :> "cnbc") @@
  (<<"m","a","r","k","e","t","w","a","t","c","h",".","c","o","m">> :> "marketwatch") @@
  (<<"b","a","r","r","o","n","s",".","c","o","m">> :> "barrons") @@
  (<<"s","e","e","k","i","n","g","a","l","p","h","a",".","c","o","m">> :> "seekingalpha") @@
  (<<"b","e","n","z","i","n","g","a",".","c","o","m">> :> "benzinga") @@
  (<<"t","e","c","h","c","r","u","n","c","h",".","c","o","m">> :> "techcrunch") @@
  (<<"t","h","e","i","n","f","o","r","m","a","t","i","o","n",".","c","o","m">> :> "theinformation") @@
  (<<"a","x","i","o","s",".","c","o","m">> :> "axios") @@
  (<<"b","u","s","i","n","e","s","s","i","n","s","i","d","e","r",".","c","o","m">> :> "businessinsider") @@
  (<<"f","o","r","b","e","s",".","c","o","m">> :> "forbes") @@
  (<<"f","o","r","t","u","n","e",".","c","o","m">> :> "fortune") @@
  (<<"r","e","d","d","i","t",".","c","o","m">> :> "reddit") @@
  (<<"x",".","c","o","m">> :> "x") @@
  (<<"t","w","i","t","t","e","r",".","c","o","m">> :> "x") @@
  (<<"f","i","n","a","n","c","e",".","y","a","h","o","o",".","c","o","m">> :> "yahoo") @@
  (<<"n","e","w","s",".","g","o","o","g","l","e",".","c","o","m">> :> "google")

DOMAIN_TO_SOURCE(v) ==
  IF v = "stocks" THEN DOMAIN_TO_SOURCE_stocks ELSE DOMAIN_TO_SOURCE_private

\* the URL of a record that carries none (the empty string)
NoUrl == [scheme |-> "", host |-> <<>>, path |-> <<>>, query |-> <<>>, fragment |-> ""]

map_domain_to_source(v, url) ==
  LET hostname == lstrip(lower(url.host), {"w", "."})
  IN  Get(DOMAIN_TO_SOURCE(v), hostname, "unknown")

(***************************************************************************)
(* Canonical URLs.                                                         *)
(***************************************************************************)
\* urllib.parse.parse_qs: name -> values, names in order of first appearance;
\* a pair with a blank value is dropped (keep_blank_values is off)
RECURSIVE parse_qs(_)
parse_qs(query) ==
  IF query = <<>> THEN <<>>
  ELSE LET init == parse_qs(SubSeq(query, 1, Len(query) - 1))
           p    == query[Len(query)]
       IN  IF p[2] = "" THEN init
           ELSE IF \E i \in 1..Len(init) : init[i][1] = p[1]
                THEN [i \in 1..Len(init) |->
                        IF init[i][1] = p[1] THEN <<init[i][1], Append(init[i][2], p[2])>>
                        ELSE init[i]]
                ELSE Append(init, <<p[1], <<p[2]>>>>)

\* urllib.parse.urlencode(qs, doseq=True): one pair per value, names in dict order
RECURSIVE urlencode(_)
urlencode(qs) ==
  IF qs = <<>> THEN <<>>
  ELSE [i \in 1..Len(qs[1][2]) |-> <<qs[1][1], qs[1][2][i]>>] \o urlencode(Tail(qs))

canonicalize_url(url, strip_params) ==
  LET hostname == lower(url.host)
      path     == rstrip(url.path, {"/"})
      qs       == SelectSeq(parse_qs(url.query),
                            LAMBDA e : \A i \in 1..Len(strip_params) : strip_params[i] # e[1])
      query    == IF url.query # <<>> THEN urlencode(qs) ELSE <<>>
  IN  [scheme |-> "https", host |-> hostname, path |-> path, query |-> query, fragment |-> ""]

(***************************************************************************)
(* Publication time.                                                       *)
(***************************************************************************)
\* parse_brave_age: the age string "<n> <unit>s ago" as minutes before now;
\* a string that names no known unit, or no number, is "now"
parse_brave_age(age) ==
  IF age.unit = "minute" THEN age.n
  ELSE IF age.unit = "hour" THEN 60 * age.n
  ELSE IF age.unit = "day" THEN 1440 * age.n
  ELSE IF age.unit = "week" THEN 10080 * age.n
  ELSE 0

(***************************************************************************)
(* Event tags.                                                             *)
(***************************************************************************)
patterns_stocks ==
  <<
    [tag |-> "guidance", keywords |-> <<
        <<"r","a","i","s","e","s"," ","g","u","i","d","a","n","c","e">>,
        <<"c","u","t","s"," ","o","u","t","l","o","o","k">>,
        <<"l","o","w","e","r","s"," ","g","u","i","d","a","n","c","e">>,
        <<"r","a","i","s","e","s"," ","o","u","t","l","o","o","k">>,
        <<"g","u","i","d","a","n","c","e">> >>],
    [tag |-> "sec_filing", keywords |-> <<
        <<"8","-","k">>,
        <<"1","0","-","k">>,
        <<"1","0","-","q">>,
        <<"s","e","c"," ","f","i","l","i","n","g">>,
        <<"f","i","l","e","s"," ","w","i","t","h"," ","s","e","c">>,
        <<"s","e","c"," ","c","h","a","r","g","e","s">> >>],
    [tag |-> "earnings", keywords |-> <<
        <<"e","a","r","n","i","n","g","s">>,
        <<"b","e","a","t","s"," ","e","s","t","i","m","a","t","e","s">>,
        <<"m","i","s","s","e","s"," ","e","s","t","i","m","a","t","e","s">>,
        <<"e","p","s">>,
        <<"r","e","v","e","n","u","e">> >>],
    [tag |-> "m_and_a_confirmed", keywords |-> <<
        <<"a","c","q","u","i","r","e","s">>,
        <<"m","e","r","g","e","r"," ","c","o","m","p","l","e","t","e","d">>,
        <<"d","e","a","l"," ","c","l","o","s","e","d">>,
        <<"t","o"," ","a","c","q","u","i","r","e">>,
        <<"a","c","q","u","i","s","i","t","i","o","n">> >>],
    [tag |-> "m_and_a_rumor", keywords |-> <<
        <<"i","n"," ","t","a","l","k","s">>,
        <<"c","o","n","s","i","d","e","r","i","n","g"," ","s","a","l","e">>,
        <<"e","x","p","l","o","r","i","n","g"," ","o","p","t","i","o","n","s">>,
        <<"p","o","t","e","n","t","i","a","l"," ","d","e","a","l">> >>],
    [tag |-> "regulatory_action", keywords |-> <<
        <<"d","o","j">>,
        <<"f","t","c">>,
        <<"e","x","p","o","r","t"," ","c","o","n","t","r","o","l","s">>,
        <<"a","n","t","i","t","r","u","s","t">>,
        <<"f","i","n","e">>,
        <<"s","e","t","t","l","e","m","e","n","t"," ","w","i","t","h"," ","r","e","g","u","l","a","t","o","r","s">> >>],
    [tag |-> "probe_or_investigation", keywords |-> <<
        <<"u","n","d","e","r"," ","i","n","v","e","s","t","i","g","a","t","i","o","n">>,
        <<"p","r","o","b","e">>,
        <<"i","n","v","e","s","t","i","g","a","t","i","o","n"," ","l","a","u","n","c","h","e","d">>,
        <<"s","u","b","p","o","e","n","a">> >>],
    [tag |-> "lawsuit", keywords |-> <<
        <<"l","a","w","s","u","i","t">>,
        <<"s","u","e","d">>,
        <<"c","l","a","s","s"," ","a","c","t","i","o","n">>,
        <<"s","e","t","t","l","e","m","e","n","t">> >>],
    [tag |-> "contract_win", keywords |-> <<
        <<"w","i","n","s"," ","c","o","n","t","r","a","c","t">>,
        <<"s","e","c","u","r","e","s"," ","d","e","a","l">>,
        <<"a","w","a","r","d","e","d"," ","c","o","n","t","r","a","c","t">>,
        <<"p","a","r","t","n","e","r","s","h","i","p"," ","w","i","t","h">> >>],
    [tag |-> "product_launch_major", keywords |-> <<
        <<"l","a","u","n","c","h","e","s">>,
        <<"n","e","w"," ","p","r","o","d","u","c","t">>,
        <<"u","n","v","e","i","l","s">> >>],
    [tag |-> "analyst_change_major", keywords |-> <<
        <<"u","p","g","r","a","d","e","d">>,
        <<"d","o","w","n","g","r","a","d","e","d">>,
        <<"p","r","i","c","e"," ","t","a","r","g","e","t"," ","r","a","i","s","e","d">>,
        <<"p","r","i","c","e"," ","t","a","r","g","e","t"," ","c","u","t">>,
        <<"i","n","i","t","i","a","t","e","s"," ","c","o","v","e","r","a","g","e">> >>],
    [tag |-> "analyst_reiterate", keywords |-> <<
        <<"r","e","i","t","e","r","a","t","e","s">>,
        <<"m","a","i","n","t","a","i","n","s"," ","r","a","t","i","n","g">>,
        <<"m","a","i","n","t","a","i","n","s"," ","b","u","y">>,
        <<"m","a","i","n","t","a","i","n","s"," ","h","o","l","d">> >>],
    [tag |-> "macro", keywords |-> <<
        <<"f","e","d">>,
        <<"i","n","t","e","r","e","s","t"," ","r","a","t","e">>,
        <<"i","n","f","l","a","t","i","o","n">>,
        <<"g","d","p">>,
        <<"u","n","e","m","p","l","o","y","m","e","n","t">>,
        <<"f","o","m","c">> >>]
  >>

patterns_private ==
  <<
    [tag |-> "funding", keywords |-> <<
        <<"r","a","i","s","e","s">>,
        <<"f","u","n","d","i","n","g">>,
        <<"s","e","r","i","e","s">>,
        <<"v","a","l","u","a","t","i","o","n">>,
        <<"u","n","i","c","o","r","n">>,
        <<"i","n","v","e","s","t","m","e","n","t">>,
        <<"i","n","v","e","s","t","o","r","s">>,
        <<"l","e","d"," ","b","y">>,
        <<"b","a","c","k","e","d"," ","b","y">> >>],
    [tag |-> "ipo_rumor", keywords |-> <<
        <<"i","p","o">>,
        <<"g","o","i","n","g"," ","p","u","b","l","i","c">>,
        <<"p","u","b","l","i","c"," ","o","f","f","e","r","i","n","g">>,
        <<"s","p","a","c">>,
        <<"l","i","s","t","i","n","g">>,
        <<"d","e","b","u","t">> >>],
    [tag |-> "m_and_a_confirmed", keywords |-> <<
        <<"a","c","q","u","i","r","e","s">>,
        <<"m","e","r","g","e","r"," ","c","o","m","p","l","e","t","e","d">>,
        <<"d","e","a","l"," ","c","l","o","s","e","d">>,
        <<"t","o"," ","a","c","q","u","i","r","e">>,
        <<"a","c","q","u","i","s","i","t","i","o","n">>,
        <<"b","u","y","s">> >>],
    [tag |-> "m_and_a_rumor", keywords |-> <<
        <<"i","n"," ","t","a","l","k","s">>,
        <<"c","o","n","s","i","d","e","r","i","n","g"," ","s","a","l","e">>,
        <<"e","x","p","l","o","r","i","n","g"," ","o","p","t","i","o","n","s">>,
        <<"p","o","t","e","n","t","i","a","l"," ","d","e","a","l">>,
        <<"s","h","o","p","p","i","n","g"," ","f","o","r"," ","b","u","y","e","r">> >>],
    [tag |-> "layoffs", keywords |-> <<
        <<"l","a","y","o","f","f","s">>,
        <<"c","u","t","s"," ","j","o","b","s">>,
        <<"w","o","r","k","f","o","r","c","e"," ","r","e","d","u","c","t","i","o","n">>,
        <<"f","i","r","i","n","g">>,
        <<"s","t","a","f","f"," ","r","e","d","u","c","t","i","o","n">> >>],
    [tag |-> "product_launch_major", keywords |-> <<
        <<"l","a","u","n","c","h","e","s">>,
        <<"n","e","w"," ","p","r","o","d","u","c","t">>,
        <<"u","n","v","e","i","l","s">>,
        <<"a","n","n","o","u","n","c","e","s">>,
        <<"r","e","l","e","a","s","e","s">> >>],
    [tag |-> "partnership", keywords |-> <<
        <<"p","a","r","t","n","e","r","s","h","i","p">>,
        <<"c","o","l","l","a","b","o","r","a","t","i","o","n">>,
        <<"t","e","a","m","s"," ","u","p"," ","w","i","t","h">>,
        <<"j","o","i","n","s"," ","f","o","r","c","e","s">>,
        <<"s","t","r","a","t","e","g","i","c"," ","a","l","l","i","a","n","c","e">> >>],
    [tag |-> "regulatory_action", keywords |-> <<
        <<"d","o","j">>,
        <<"f","t","c">>,
        <<"i","n","v","e","s","t","i","g","a","t","i","o","n">>,
        <<"r","e","g","u","l","a","t","o","r","s">>,
        <<"l","a","w","s","u","i","t">>,
        <<"s","u","e","d">>,
        <<"f","i","n","e">> >>],
    [tag |-> "leadership", keywords |-> <<
        <<"c","e","o">>,
        <<"c","t","o">>,
        <<"c","f","o">>,
        <<"p","r","e","s","i","d","e","n","t">>,
        <<"e","x","e","c","u","t","i","v","e">>,
        <<"h","i","r","e","s">>,
        <<"d","e","p","a","r","t","i","n","g">>,
        <<"r","e","s","i","g","n","s">> >>],
    [tag |-> "other", keywords |-> <<
         >>]
  >>

patterns(v) == IF v = "stocks" THEN patterns_stocks ELSE patterns_private

tag_story(v, title, snippet) ==
  LET text == lower(title \o <<" ">> \o snippet)
      pats == patterns(v)
      hit  == SelectSeq(pats, LAMBDA p :
                \E k \in 1..Len(p.keywords) : Contains(text, p.keywords[k]))
      tags == [i \in 1..Len(hit) |-> hit[i].tag]
  IN  IF tags = <<>> THEN <<"other">> ELSE tags

(***************************************************************************)
(* Scoring.                                                                *)
(***************************************************************************)
private_event_weights ==
  ("funding" :> 95) @@ ("ipo_rumor" :> 90) @@ ("m_and_a_confirmed" :> 90) @@
  ("m_and_a_rumor" :> 70) @@ ("layoffs" :> 75) @@ ("product_launch_major" :> 60) @@
  ("partnership" :> 65) @@ ("regulatory_action" :> 85) @@ ("leadership" :> 55) @@
  ("other" :> 20)

\* the weight score_story gives a tag
tag_weight(v, event_weights, tag) ==
  IF v = "private"
  THEN Get(private_event_weights, tag, Get(event_weights, tag, 20))
  ELSE Get(event_weights, tag, 20)

RECURSIVE SeqSum(_)
SeqSum(s) == IF s = <<>> THEN 0 ELSE Head(s) + SeqSum(Tail(s))

RECURSIVE SeqMax(_)
SeqMax(s) == IF Len(s) = 1 THEN s[1] ELSE Max(Head(s), SeqMax(Tail(s)))

\* math.exp(-minutes_ago / half_life) in thousandths, read at quarter steps
\* of the exponent: exp(-q/4) for q = floor(4 * minutes_ago / half_life)
ExpTable ==
  <<1000, 779, 607, 472, 368, 287, 223, 174, 135, 105, 82, 64, 50,
    39, 30, 24, 18, 14, 11, 9, 7, 5, 4, 3, 2, 2, 2, 1, 1>>

exp_neg(minutes_ago, half_life) ==
  LET q == (4 * minutes_ago) \div half_life
  IN  IF q + 1 <= Len(ExpTable) THEN ExpTable[q + 1] ELSE 0

\* round(x, 1) of x given in 1/10000: the nearest tenth, a tie going to the even one
round1(x) ==
  LET q == x \div 1000
      r == x % 1000
  IN  IF r > 500 \/ (r = 500 /\ q % 2 = 1) THEN q + 1 ELSE q

\* the clamp without its upper bound
clamp_score_floor_only(x) == Max(0, x)

\* final_score = max(0, min(100, final_score)), in 1/10000 point
clamp_score(x) == Max(0, Min(1000000, x))

\* the decay without its floor
freshness_term_unfloored(floor, minutes_ago, half_life) == exp_neg(minutes_ago, half_life)

\* freshness = max(floor, math.exp(-minutes_ago / half_life)), in thousandths;
\* the floor is given in hundredths
freshness_term(floor, minutes_ago, half_life) ==
  Max(10 * floor, exp_neg(minutes_ago, half_life))

\* score_story(story, source_key, event_tags, ranker_config, seen_tags):
\* the rounded pair (final_score, why_ranked) and the terms that made it.
\* Fractions of the configuration are held in hundredths.
score_story(v, story, source_key, event_tags, config, seen_tags) ==
  LET sources      == Get(config, "sources", Empty)
      eweights     == Get(config, "event_weights", Empty)
      fresh_cfg    == Get(config, "freshness", Empty)
      scoring      == Get(config, "scoring", Empty)
      novelty      == Get(config, "novelty", Empty)
      syndication  == Get(config, "syndication", Empty)
      src          == Get(sources, source_key, Empty)
      trust        == Get(src, "trust", 40)
      speed        == Get(src, "speed", 50)
      tier         == Get(src, "tier", 3)
      source10     == 7 * trust + 3 * speed
      ws           == [i \in 1..Len(event_tags) |-> tag_weight(v, eweights, event_tags[i])]
      max_event    == IF ws = <<>> THEN 20 ELSE Max(20, SeqMax(ws))
      other_sum    == IF ws = <<>> THEN 0 ELSE SeqSum(ws) - SeqMax(ws)
      other_capped == Min(60, other_sum)
      event100     == 100 * max_event + 15 * other_capped
      half_life    == Get(fresh_cfg, "half_life_minutes", 720)
      floor        == Get(fresh_cfg, "floor", 15)
      freshness    == freshness_term(floor, story.published_at, half_life)
      sw           == Get(scoring, "source_weight", 45)
      ew           == Get(scoring, "event_weight", 40)
      fw           == Get(scoring, "freshness_weight", 15)
      base         == sw * source10 * 10 + ew * event100 + fw * freshness * 10
      unique       == story.unique_sources
      confirm      == 10000 * Min(Get(syndication, "confirm_boost_cap", 100),
                                  Get(syndication, "confirm_boost_per_extra_source", 15)
                                    * (unique - 1))
      tier1_boost  == IF tier = 1 THEN 10000 * Get(syndication, "tier1_boost", 25) ELSE 0
      primary_tag  == IF event_tags # <<>> THEN event_tags[1] ELSE "other"
      penalty      == IF primary_tag \in seen_tags
                      THEN 10000 * Get(novelty, "same_tag_penalty_6h", 25) ELSE 0
      raw          == base + confirm + tier1_boost - penalty
      final        == clamp_score(raw)
  IN  [score |-> final,
       base  |-> base,
       raw   |-> raw,
       freshness |-> freshness,
       why   |-> [event |-> primary_tag, weight |-> max_event, source |-> source_key,
                  source_score |-> source10 \div 10, fresh |-> (freshness + 5) \div 10,
                  confirm |-> IF confirm > 0 THEN unique ELSE 0,
                  tier1 |-> tier1_boost > 0,
                  novelty |-> penalty \div 10000]]
(***************************************************************************)
(* Title similarity (publish_report.py, ai_news_skill.py).                 *)
(***************************************************************************)
\* set(re.findall(r'\w+', s)): the maximal runs of word characters of s
RECURSIVE findall_words(_, _, _)
findall_words(s, cur, acc) ==
  IF s = <<>> THEN (IF cur = <<>> THEN acc ELSE acc \cup {cur})
  ELSE IF Head(s) \in WordChars
       THEN findall_words(Tail(s), Append(cur, Head(s)), acc)
       ELSE findall_words(Tail(s), <<>>, IF cur = <<>> THEN acc ELSE acc \cup {cur})

\* the stopwords of _title_words
stopwords ==
  {
   <<"t","h","e">>, <<"a">>, <<"a","n">>, <<"o","f">>,
   <<"i","n">>, <<"o","n">>, <<"a","t">>, <<"t","o">>,
   <<"f","o","r">>, <<"a","n","d">>, <<"o","r">>, <<"i","s">>,
   <<"a","r","e">>, <<"w","i","t","h">>, <<"b","y">>, <<"f","r","o","m">>,
   <<"t","h","a","t">>, <<"t","h","i","s">>, <<"i","t">>, <<"i","t","s">>,
   <<"a","s">> }

\* _title_words(title): the significant lowercase words of a title
title_words(title) == findall_words(lower(title), <<>>, {}) \ stopwords

\* the default threshold of _titles_overlap, in hundredths
OverlapThreshold == 55

\* len(w1 & w2) / min(len(w1), len(w2)) >= threshold, on the integers
overlap_at_least(w1, w2, threshold) ==
  100 * Cardinality(w1 \cap w2) >= threshold * Min(Cardinality(w1), Cardinality(w2))

\* _titles_overlap(t1, t2, threshold)
titles_overlap(t1, t2, threshold) ==
  LET w1 == title_words(t1)
      w2 == title_words(t2)
  IN  IF w1 = {} \/ w2 = {} THEN FALSE ELSE overlap_at_least(w1, w2, threshold)

\* the overlap measured against the first title alone
overlap_above_first(wa, wb) ==
  100 * Cardinality(wa \cap wb) > 55 * Cardinality(wa)

\* len(wa & wb) / min(len(wa), len(wb)) > 0.55, on the integers
overlap_above(wa, wb) ==
  100 * Cardinality(wa \cap wb) > 55 * Min(Cardinality(wa), Cardinality(wb))

\* deduplicate.similar(a, b) of the AI-news skill
similar(a, b) ==
  LET wa == findall_words(lower(a), <<>>, {})
      wb == findall_words(lower(b), <<>>, {})
  IN  IF wa = {} \/ wb = {} THEN FALSE ELSE overlap_above(wa, wb)

(***************************************************************************)
(* Inputs: configuration, entities, collector results.                     *)
(***************************************************************************)
\* an empty ranker file: every option takes the default written in the code
CfgDefault == Empty

\* a ranker file that rates one source, weighs the stock tags, strips one
\* tracking parameter and allows one top and one glance story per entity
CfgTuned ==
  [sources       |-> ("reuters" :> [trust |-> 94, speed |-> 90, tier |-> 1]),
   event_weights |-> ("guidance" :> 95) @@ ("lawsuit" :> 98) @@ ("other" :> 90),
   scoring       |-> [source_weight |-> 30, event_weight |-> 40, freshness_weight |-> 20],
   thresholds    |-> [max_top |-> 1, max_glance |-> 1],
   dedupe        |-> [strip_query_params |-> <<"utm_source">>]]

Configs == {CfgDefault, CfgTuned}

Verticals == {"stocks", "private"}

\* tickers of stocks.tickers.yaml / companies of private_companies.yaml
tickers ==
  <<[symbol |-> "AAA"], [symbol |-> "BBB", enabled |-> TRUE]>>

H_reuters == <<"r","e","u","t","e","r","s",".","c","o","m">>
H_blog    == <<"W","W","W",".","B","l","o","g",".","i","o">>

T_guidance  == <<"A","c","m","e"," ","r","a","i","s","e","s"," ","g","u","i","d","a","n","c","e">>
T_Guidance  == <<"A","c","m","e"," ","R","a","i","s","e","s"," "," ","G","u","i","d","a","n","c","e","!">>
T_announces == <<"A","c","m","e"," ","a","n","n","o","u","n","c","e","s"," ","l","a","w","s","u","i","t">>
T_sued      == <<"A","c","m","e"," ","s","u","e","d">>
T_layoffs   == <<"A","c","m","e"," ","l","a","y","o","f","f","s">>

Url(scheme, host, path, query, fragment) ==
  [scheme |-> scheme, host |-> host, path |-> path, query |-> query, fragment |-> fragment]

Now == [n |-> 0, unit |-> ""]
HoursAgo(n) == [n |-> n, unit |-> "hour"]
DaysAgo(n) == [n |-> n, unit |-> "day"]

\* the records the collector can return for an entity
RecA == [title |-> T_guidance,  published |-> HoursAgo(3),
         url |-> Url("http", H_reuters, <<"/", "a">>, <<<<"utm_source", "x">>>>, "")]
RecB == [title |-> T_announces, published |-> HoursAgo(3),
         url |-> Url("https", H_reuters, <<"/", "a", "/">>, <<>>, "")]
RecC == [title |-> T_Guidance,  published |-> HoursAgo(12),
         url |-> Url("https", H_reuters, <<"/", "b">>, <<>>, "")]
RecD == [title |-> T_sued,      published |-> DaysAgo(1),
         url |-> Url("https", H_blog, <<"/", "c">>, <<>>, "x")]
RecE == [title |-> T_layoffs,   published |-> HoursAgo(12),
         url |-> Url("https", H_blog, <<"/", "e">>, <<>>, "")]

Pool == {RecA, RecB, RecC, RecD, RecE}

\* a record of another outlet that carries the headline of RecA
RecF == [title |-> T_guidance,  published |-> HoursAgo(3),
         url |-> Url("https", H_blog, <<"/", "f">>, <<>>, "")]

\* a record whose description names an event its title does not
D_lawsuit == <<"f","a","c","e","s"," ","a"," ","l","a","w","s","u","i","t">>
RecG == [title |-> T_layoffs,   published |-> HoursAgo(3), description |-> D_lawsuit,
         url |-> Url("https", H_blog, <<"/", "g">>, <<>>, "")]

\* every record a collector returns in some specification
Feed == Pool \cup {RecF, RecG}

\* what the queries of one entity can return together (a failed query
\* returns nothing): the lists of at most n records
RawLists(n) == UNION {[1..k -> Pool] : k \in 0..n}

\* days that pass between two runs; while no date is recorded anywhere the
\* day of a run makes no difference, and the clock is left where it is
Elapsed == {0, 1, 2, 31}


(***************************************************************************)
(* The per-record functions, evaluated once for the records of Pool.       *)
(***************************************************************************)
PoolUrls == {r.url : r \in Feed}
PoolTitles == {r.title : r \in Feed}
StripLists == {Get(Get(c, "dedupe", Empty), "strip_query_params", <<>>) : c \in Configs}

SourceTable == [v \in Verticals |-> [u \in PoolUrls |-> map_domain_to_source(v, u)]]
CanonTable == [sp \in StripLists |-> [u \in PoolUrls |-> canonicalize_url(u, sp)]]
TitleKeyTable == [t \in PoolTitles |-> Prefix(norm_title(t), TitleKeyLen)]
TagTable == [v \in Verticals |-> [t \in PoolTitles |-> tag_story(v, t, <<>>)]]

(***************************************************************************)
(* process_ticker / process_company.                                       *)
(***************************************************************************)
source_tier(config, source_key) ==
  Get(Get(Get(config, "sources", Empty), source_key, Empty), "tier", 3)

\* the cluster key of a raw record: "<source_key>:<norm_title[:50]>"
cluster_key(v, r) == <<SourceTable[v][r.url], TitleKeyTable[r.title]>>

\* the loop "for r in raw_results": clusters in order of first appearance
RECURSIVE build_clusters(_, _, _)
build_clusters(v, raw_results, strip_params) ==
  IF raw_results = <<>> THEN <<>>
  ELSE
    LET done == build_clusters(v, SubSeq(raw_results, 1, Len(raw_results) - 1), strip_params)
        r    == raw_results[Len(raw_results)]
    IN  IF r.url = NoUrl \/ r.title = <<>> THEN done
        ELSE
          LET source_key == SourceTable[v][r.url]
              canonical  == CanonTable[strip_params][r.url]
              key        == cluster_key(v, r)
              published  == parse_brave_age(r.published)
              add(c)     == [key      |-> c.key,
                             titles   |-> Append(c.titles, r.title),
                             urls     |-> Append(c.urls, [canonical |-> canonical, original |-> r.url]),
                             sources  |-> c.sources \cup {source_key},
                             earliest |-> Max(c.earliest, published),
                             title    |-> r.title]
              fresh      == [key      |-> key,
                             titles   |-> <<r.title>>,
                             urls     |-> <<[canonical |-> canonical, original |-> r.url]>>,
                             sources  |-> {source_key},
                             earliest |-> published,
                             title    |-> r.title]
          IN  IF \E i \in 1..Len(done) : done[i].key = key
              THEN [i \in 1..Len(done) |-> IF done[i].key = key THEN add(done[i]) ELSE done[i]]
              ELSE Append(done, fresh)

\* the representative URL: the first member from a tier-1 source, else the first
best_url(v, config, cluster) ==
  LET t1 == {i \in 1..Len(cluster.urls) :
               source_tier(config, SourceTable[v][cluster.urls[i].original]) = 1}
  IN  IF t1 = {} THEN cluster.urls[1].original
      ELSE cluster.urls[CHOOSE i \in t1 : \A j \in t1 : i <= j].original

\* the loop "for key, cluster in clusters.items()"
build_stories(v, config, clusters) ==
  [i \in 1..Len(clusters) |->
     LET cluster == clusters[i]
     IN  [cluster_key    |-> cluster.key,
          title          |-> cluster.title,
          url            |-> best_url(v, config, cluster),
          canonical_url  |-> cluster.urls[1].canonical,
          published_at   |-> cluster.earliest,
          sources        |-> <<CHOOSE s \in cluster.sources : TRUE>>,
          unique_sources |-> Cardinality(cluster.sources),
          tags           |-> TagTable[v][cluster.title]]]

\* a JSON array where an object is expected
JsonArray == [array |-> <<>>]

\* isinstance(x, dict), for the values a date key can hold
isinstance_dict(x) == x # JsonArray

\* every URL the loaded state lists, under any date
seen_urls_of(state) ==
  UNION {{Get(state[d], "urls", <<>>)[i] : i \in 1..Len(Get(state[d], "urls", <<>>))} :
           d \in {x \in DOMAIN state : isinstance_dict(state[x])}}

\* the Fresh-Only filter
fresh_only(stories, state) ==
  SelectSeq(stories, LAMBDA s : s.canonical_url \notin seen_urls_of(state))

\* the loop "for s in fresh_stories": scores in list order, the tags seen so far
RECURSIVE score_all(_, _, _, _)
score_all(v, fresh_stories, config, seen_tags) ==
  IF fresh_stories = <<>> THEN <<>>
  ELSE
    LET s  == Head(fresh_stories)
        sc == score_story(v, s, s.sources[1], s.tags, config, seen_tags)
        s2 == ("score" :> round1(sc.score)) @@ ("why_ranked" :> sc.why) @@ s
    IN  <<s2>> \o score_all(v, Tail(fresh_stories), config, seen_tags \cup {s.tags[1]})

\* scored.sort(key=lambda x: -x["score"]): stable, highest score first
RECURSIVE sort_by_score(_)
sort_by_score(scored) ==
  IF scored = <<>> THEN <<>>
  ELSE
    LET done == sort_by_score(SubSeq(scored, 1, Len(scored) - 1))
        s    == scored[Len(scored)]
        k    == Cardinality({i \in 1..Len(done) : done[i].score >= s.score})
    IN  SubSeq(done, 1, k) \o <<s>> \o SubSeq(done, k + 1, Len(done))

\* the thresholds the selection reads; scores are tenths of a point
top_min_score(thresholds) == 10 * Get(thresholds, "top_min_score", 55)
must_include_score(thresholds) == 10 * Get(thresholds, "must_include_score", 80)
glance_low(thresholds) == 10 * Get(thresholds, "glance_range", <<45, 54>>)[1]
glance_high(thresholds) == 10 * Get(thresholds, "glance_range", <<45, 54>>)[2]
max_top(thresholds) == Get(thresholds, "max_top", 5)
max_glance(thresholds) == Get(thresholds, "max_glance", 3)

\* the must-include test with the count test of the top branch added to it
is_must_include_capped(s, thresholds, acc) ==
  s.score >= must_include_score(thresholds) /\ Len(acc.top_stories) < max_top(thresholds)

\* the top test without its count test
takes_top_uncapped(s, thresholds, acc) == s.score >= top_min_score(thresholds)

\* the glance test without its count test
takes_glance_uncapped(s, thresholds, acc) ==
  /\ glance_low(thresholds) <= s.score
  /\ s.score <= glance_high(thresholds)
  /\ s.tags[1] \notin {acc.top_stories[i].tags[1] : i \in 1..Len(acc.top_stories)}

\* if s["score"] >= must_include
is_must_include(s, thresholds, acc) == s.score >= must_include_score(thresholds)

\* elif s["score"] >= top_min and len(top_stories) < max_top
takes_top(s, thresholds, acc) ==
  s.score >= top_min_score(thresholds) /\ Len(acc.top_stories) < max_top(thresholds)

\* elif glance_range[0] <= s["score"] <= glance_range[1] and
\*      len(glance_stories) < max_glance, then the test on the first tag
takes_glance(s, thresholds, acc) ==
  /\ glance_low(thresholds) <= s.score
  /\ s.score <= glance_high(thresholds)
  /\ Len(acc.glance_stories) < max_glance(thresholds)
  /\ s.tags[1] \notin {acc.top_stories[i].tags[1] : i \in 1..Len(acc.top_stories)}

\* one turn of the loop "for s in scored"
select_step(s, thresholds, acc) ==
  IF is_must_include(s, thresholds, acc) \/ takes_top(s, thresholds, acc)
  THEN [acc EXCEPT !.top_stories = Append(@, s),
                   !.included_urls = Append(@, s.canonical_url)]
  ELSE IF takes_glance(s, thresholds, acc)
  THEN [acc EXCEPT !.glance_stories = Append(@, s),
                   !.included_urls = Append(@, s.canonical_url)]
  ELSE acc

\* the loop "for s in scored" that fills top_stories and glance_stories
RECURSIVE select(_, _, _)
select(scored, thresholds, acc) ==
  IF scored = <<>> THEN acc
  ELSE select(Tail(scored), thresholds, select_step(Head(scored), thresholds, acc))

NoSelection == [top_stories |-> <<>>, glance_stories |-> <<>>, included_urls |-> <<>>]

\* the dictionary process_ticker returns for an entity
build_result(symbol, sel) ==
  [symbol      |-> symbol,
   top_stories |-> [i \in 1..Len(sel.top_stories) |->
                      LET s == sel.top_stories[i]
                      IN  [score |-> s.score, tags |-> s.tags, headline |-> s.title,
                           source |-> s.sources[1], url |-> s.url,
                           published_at |-> s.published_at, why_ranked |-> s.why_ranked]],
   glance      |-> [i \in 1..Len(sel.glance_stories) |->
                      LET s == sel.glance_stories[i]
                      IN  [score |-> s.score, tags |-> s.tags, headline |-> s.title,
                           why_ranked |-> s.why_ranked]]]

\* the early returns without the test on the two lists
has_result_unchecked(fresh_stories, sel) == fresh_stories # <<>>

\* the early returns after the filter and after the selection: a result is
\* returned when a fresh story exists and one of the two lists is not empty
has_result(fresh_stories, sel) ==
  /\ fresh_stories # <<>>
  /\ (sel.top_stories # <<>> \/ sel.glance_stories # <<>>)

\* fresh_only.exclude_if_seen_in_last_reports, as process_ticker reads it
exclude_count(config) ==
  Get(Get(config, "fresh_only", Empty), "exclude_if_seen_in_last_reports", 1)

\* process_ticker(ticker, ranker_config, seen_state, ...) on the records the
\* collector returned: what it returns (returned = FALSE stands for None) and
\* the intermediate lists it built
process_ticker(v, ticker, config, state, raw_results) ==
  LET strip_params == Get(Get(config, "dedupe", Empty), "strip_query_params", <<>>)
      clusters     == build_clusters(v, raw_results, strip_params)
      stories      == build_stories(v, config, clusters)
      fresh        == fresh_only(stories, state)
      scored       == sort_by_score(score_all(v, fresh, config, {}))
      sel          == select(scored, Get(config, "thresholds", Empty), NoSelection)
      ran          == Get(ticker, "enabled", TRUE) /\ raw_results # <<>>
      returned     == ran /\ has_result(fresh, sel)
  IN  [symbol         |-> ticker.symbol,
       returned       |-> returned,
       result         |-> build_result(ticker.symbol, sel),
       included_urls  |-> IF returned THEN sel.included_urls ELSE <<>>,
       clusters       |-> IF ran THEN clusters ELSE <<>>,
       scored         |-> IF ran THEN scored ELSE <<>>,
       top_stories    |-> IF ran THEN sel.top_stories ELSE <<>>,
       glance_stories |-> IF ran THEN sel.glance_stories ELSE <<>>]

(***************************************************************************)
(* SeenState: load, update, prune, save.                                   *)
(***************************************************************************)
\* days of SeenState kept by the clean-up of a write
RetentionDays == 30

\* what a path of the state directory can hold
NoFile == [kind |-> "missing"]
Unreadable == [kind |-> "unreadable"]
Undecodable == [kind |-> "undecodable"]
NotJson == [kind |-> "invalid"]

\* a complete JSON document: the type of its top-level value and, for an
\* object, its members
JsonFile(top, doc) == [kind |-> "json", top |-> top, doc |-> doc]

\* the text json.dump has written when it is cut short: the entries of some
\* dates, the closing brace missing
PartialFile(doc) == [kind |-> "partial", doc |-> doc]

\* load_seen_state() raises: open() in text mode meets bytes that are not
\* UTF-8, an error the except clause does not list
load_raises(file) == file.kind = "undecodable"

\* the JSON type of the value load_seen_state() returns
loaded_type(file) == IF file.kind = "json" THEN file.top ELSE "object"

\* load_seen_state(): the members of the file's object; {} for a missing
\* file, for one open() cannot read and for one json.load cannot parse
load_seen_state(file) ==
  IF file.kind = "json" /\ file.top = "object" THEN file.doc ELSE Empty

\* save_seen_state(state): the document the state path holds once the
\* temporary file has replaced it
save_seen_state(state) == JsonFile("object", state)

\* the entry get_portfolio_news / get_private_market_news creates for a new date
new_entry(v) ==
  IF v = "stocks" THEN [urls |-> <<>>, by_ticker |-> Empty]
  ELSE [urls |-> <<>>, by_company |-> Empty]

\* the state update that fills an entry only when it creates it
update_seen_state_created_only(v, state, report_date, included) ==
  LET s2     == IF report_date \in DOMAIN state THEN state
                ELSE (report_date :> [new_entry(v) EXCEPT !.urls = included]) @@ state
      cutoff == report_date - RetentionDays
  IN  [d \in {x \in DOMAIN s2 : x >= cutoff} |-> s2[d]]

\* the update of a state whose clean-up keeps every date
update_seen_state_unpruned(v, state, report_date, included) ==
  LET s1       == IF report_date \in DOMAIN state THEN state
                  ELSE (report_date :> new_entry(v)) @@ state
      old      == s1[report_date].urls
      existing == {old[i] : i \in 1..Len(old)}
      new_urls == SelectSeq(included, LAMBDA u : u \notin existing)
  IN  [s1 EXCEPT ![report_date].urls = @ \o new_urls]

\* the update that replaces the URLs of today's entry by the new ones
update_seen_state_overwriting(v, state, report_date, included) ==
  LET s1       == IF report_date \in DOMAIN state THEN state
                  ELSE (report_date :> new_entry(v)) @@ state
      old      == s1[report_date].urls
      existing == {old[i] : i \in 1..Len(old)}
      new_urls == SelectSeq(included, LAMBDA u : u \notin existing)
      s2       == [s1 EXCEPT ![report_date].urls = new_urls]
      cutoff   == report_date - RetentionDays
  IN  [k \in {d \in DOMAIN s2 : d >= cutoff} |-> s2[k]]

\* "Update state with today's URLs": create the entry, append the URLs that
\* are not in it yet, drop the dates before the cutoff
update_seen_state(v, state, report_date, included) ==
  LET s1       == IF report_date \in DOMAIN state THEN state
                  ELSE (report_date :> new_entry(v)) @@ state
      old      == s1[report_date].urls
      existing == {old[i] : i \in 1..Len(old)}
      new_urls == SelectSeq(included, LAMBDA u : u \notin existing)
      s2       == [s1 EXCEPT ![report_date].urls = @ \o new_urls]
      cutoff   == report_date - RetentionDays
  IN  [k \in {d \in DOMAIN s2 : d >= cutoff} |-> s2[k]]

NoCall ==
  [symbol |-> "", returned |-> FALSE, result |-> build_result("", NoSelection),
   included_urls |-> <<>>, clusters |-> <<>>, scored |-> <<>>,
   top_stories |-> <<>>, glance_stories |-> <<>>]

NoProbe == [called |-> FALSE]

(***************************************************************************)
(* get_portfolio_news / get_private_market_news.                           *)
(***************************************************************************)
Init ==
  /\ vertical \in Verticals
  /\ ranker_config \in Configs
  /\ today = 0
  /\ runs = 0
  /\ state_file = NoFile
  /\ tmp_file = NoFile
  /\ seen_state = Empty
  /\ seen_type = "object"
  /\ pc = "idle"
  /\ idx = 1
  /\ results = <<>>
  /\ all_included_urls = <<>>
  /\ state_written = FALSE
  /\ last = NoCall
  /\ fetched = 0
  /\ probe = NoProbe

\* a run starts: the clock is read, the configuration and the state are loaded
StartRun ==
  /\ pc \in {"idle", "returned"}
  /\ runs < MaxRuns
  /\ \E d \in (IF state_file = NoFile THEN {0} ELSE Elapsed) : today' = today + d
  /\ runs' = runs + 1
  /\ seen_state' = load_seen_state(state_file)
  /\ seen_type' = loaded_type(state_file)
  /\ results' = <<>>
  /\ all_included_urls' = <<>>
  /\ state_written' = FALSE
  /\ idx' = 1
  /\ last' = NoCall
  /\ pc' = "loop"
  /\ UNCHANGED <<vertical, ranker_config, state_file, tmp_file, fetched, probe>>

\* one turn of the loop over the entities
ProcessEntity ==
  /\ pc = "loop"
  /\ idx <= Len(tickers)
  /\ \E raw \in (IF Get(tickers[idx], "enabled", TRUE)
                  THEN RawLists(MaxRecords - fetched) ELSE {<<>>}) :
       LET out == process_ticker(vertical, tickers[idx], ranker_config, seen_state, raw)
       IN  /\ last' = out
           /\ fetched' = fetched + Len(raw)
           /\ results' = IF out.returned THEN Append(results, out.result) ELSE results
           /\ all_included_urls' = all_included_urls \o out.included_urls
  /\ idx' = idx + 1
  /\ UNCHANGED <<vertical, ranker_config, today, runs, state_file, tmp_file, seen_state,
                 seen_type, pc, state_written, probe>>

\* after the loop: the state update and its write, then the return
FinishRun ==
  /\ pc = "loop"
  /\ idx > Len(tickers)
  /\ IF all_included_urls # <<>>
     THEN LET updated == update_seen_state(vertical, seen_state, today, all_included_urls)
          IN  /\ seen_state' = updated
              /\ state_file' = save_seen_state(updated)
              /\ state_written' = TRUE
     ELSE UNCHANGED <<seen_state, state_file, state_written>>
  /\ pc' = "returned"
  /\ last' = NoCall
  /\ UNCHANGED <<vertical, ranker_config, today, runs, tmp_file, seen_type, idx, results,
                 all_included_urls, fetched, probe>>

Next == StartRun \/ ProcessEntity \/ FinishRun

Spec == Init /\ [][Next]_vars

(***************************************************************************)
(* score_story called on its own, on inputs a caller can pass.             *)
(***************************************************************************)
\* a ranker file whose weights, boosts and penalty are all oversized
CfgExtreme ==
  [sources       |-> ("reuters" :> [trust |-> 100, speed |-> 100, tier |-> 1]),
   event_weights |-> ("guidance" :> 100) @@ ("lawsuit" :> 100),
   scoring       |-> [source_weight |-> 100, event_weight |-> 100, freshness_weight |-> 100],
   syndication   |-> [confirm_boost_per_extra_source |-> 50, confirm_boost_cap |-> 500,
                      tier1_boost |-> 300],
   novelty       |-> [same_tag_penalty_6h |-> 900],
   freshness     |-> [half_life_minutes |-> 60, floor |-> 0]]

\* a ranker file with the default scoring weights (they sum to 1) and every
\* rating at the top of its range
CfgTopRated ==
  [sources       |-> ("reuters" :> [trust |-> 100, speed |-> 100, tier |-> 3]),
   event_weights |-> ("guidance" :> 100) @@ ("lawsuit" :> 100),
   scoring       |-> [source_weight |-> 45, event_weight |-> 40, freshness_weight |-> 15]]

ProbeConfigs == Configs \cup {CfgExtreme, CfgTopRated}
ProbeSources == {"reuters", "unknown"}
ProbeTags ==
  [stocks  |-> {<<>>, <<"other">>, <<"guidance">>, <<"guidance", "lawsuit">>},
   private |-> {<<>>, <<"other">>, <<"funding">>, <<"product_launch_major", "regulatory_action">>,
                <<"funding", "ipo_rumor">>}]
ProbeMinutes == {0, 180, 1440, 100000}
ProbeUnique == {1, 2, 9}

\* the arguments of one call, the configuration and the vertical being those
\* of the state
InitScore ==
  /\ vertical \in Verticals
  /\ ranker_config \in ProbeConfigs
  /\ today = 0
  /\ runs = 0
  /\ state_file = NoFile
  /\ tmp_file = NoFile
  /\ seen_state = Empty
  /\ seen_type = "object"
  /\ pc = "idle"
  /\ idx = 1
  /\ results = <<>>
  /\ all_included_urls = <<>>
  /\ state_written = FALSE
  /\ last = NoCall
  /\ fetched = 0
  /\ \E source_key \in ProbeSources, minutes \in ProbeMinutes, unique \in ProbeUnique :
       \E event_tags \in ProbeTags[vertical] :
         \E seen_tags \in {{}, {IF event_tags # <<>> THEN event_tags[1] ELSE "other"}} :
           probe = [called |-> FALSE, source_key |-> source_key, event_tags |-> event_tags,
                    story |-> [published_at |-> minutes, unique_sources |-> unique],
                    seen_tags |-> seen_tags]

\* the call of score_story on these arguments
ScoreProbe ==
  /\ ~probe.called
  /\ probe' = ("called" :> TRUE) @@
              ("out" :> score_story(vertical, probe.story, probe.source_key, probe.event_tags,
                                    ranker_config, probe.seen_tags)) @@ probe
  /\ UNCHANGED <<vertical, ranker_config, today, runs, state_file, tmp_file, seen_state,
                 seen_type, pc, idx, results, all_included_urls, state_written, last,
                 fetched>>

NextScore == ScoreProbe

SpecScore == InitScore /\ [][NextScore]_vars

(***************************************************************************)
(* process_ticker / process_company called on one entity, in the state a   *)
(* run is in after its loads.                                              *)
(***************************************************************************)
\* the longest list the collector returns for the entity
MaxRaw == 2

RECURSIVE FeedLists(_)
FeedLists(n) ==
  IF n = 0 THEN {<<>>}
  ELSE FeedLists(n - 1) \cup {Append(l, r) : l \in {x \in FeedLists(n - 1) : Len(x) = n - 1}, r \in Feed}

\* the loaded state: empty, or yesterday's report listed one story
EntityStates(v) ==
  {Empty,
   (0 - 1) :> [new_entry(v) EXCEPT !.urls = <<CanonTable[<<>>][RecD.url]>>]}

InitEntity ==
  /\ vertical \in Verticals
  /\ ranker_config \in Configs
  /\ today = 0
  /\ runs = 1
  /\ seen_state \in EntityStates(vertical)
  /\ seen_type = "object"
  /\ state_file = (IF seen_state = Empty THEN NoFile ELSE save_seen_state(seen_state))
  /\ tmp_file = NoFile
  /\ pc = "loop"
  /\ idx = 1
  /\ results = <<>>
  /\ all_included_urls = <<>>
  /\ state_written = FALSE
  /\ last = NoCall
  /\ fetched = 0
  /\ \E raw \in FeedLists(MaxRaw) : probe = [called |-> FALSE, raw |-> raw]

\* the call on the first entity of the configuration
EntityProbe ==
  /\ ~probe.called
  /\ probe' = [probe EXCEPT !.called = TRUE]
  /\ last' = process_ticker(vertical, tickers[1], ranker_config, seen_state, probe.raw)
  /\ UNCHANGED <<vertical, ranker_config, today, runs, state_file, tmp_file, seen_state,
                 seen_type, pc, idx, results, all_included_urls, state_written, fetched>>

NextEntity == EntityProbe

SpecEntity == InitEntity /\ [][NextEntity]_vars

(***************************************************************************)
(* A run in an environment that fails: a state file of any content, a      *)
(* collector record of the wrong type, a write that fails or is cut short. *)
(***************************************************************************)
\* a JSON number where the title string is expected
NotAString == <<"<number>">>

\* a collector record whose title is not a string
RecBad == [title |-> NotAString, published |-> HoursAgo(3),
           url |-> Url("https", H_reuters, <<"/", "z">>, <<>>, "")]

\* what the queries of one entity return together in this environment
FaultRaws == {<<>>, <<RecA>>, <<RecD>>, <<RecBad>>, <<RecBad, RecA>>}

\* a well-formed entry listing the given URLs
entry_of(v, urls) == [new_entry(v) EXCEPT !.urls = urls]

\* the contents the state path can have when a run starts
FileContents(v) ==
  {NoFile, Unreadable, Undecodable, NotJson,
   JsonFile("array", Empty),
   JsonFile("object", ((0 - 31) :> entry_of(v, <<CanonTable[<<>>][RecD.url]>>)) @@
                      ((0 - 30) :> entry_of(v, <<>>))),
   JsonFile("object", ((0 - 1) :> JsonArray)),
   JsonFile("object", (0 :> JsonArray)),
   JsonFile("object", (0 :> [k \in DOMAIN new_entry(v) \ {"urls"} |-> new_entry(v)[k]]))}

\* the two paths save_seen_state uses
StatePath == "state"

\* STATE_FILE.with_suffix(".tmp")
with_suffix_same(path) == path

with_suffix(path) == "tmp"

\* open(path, "w"): the file exists and is empty
open_w(files, path) == [files EXCEPT ![path] = PartialFile(Empty)]

\* json.dump writes the entry of the next date
dump_next(files, path, state) ==
  LET rest == DOMAIN state \ DOMAIN files[path].doc
      d    == CHOOSE x \in rest : \A y \in rest : x <= y
  IN  [files EXCEPT ![path] = PartialFile((d :> state[d]) @@ files[path].doc)]

\* the closing brace is written and the file is closed
close_w(files, path) == [files EXCEPT ![path] = JsonFile("object", files[path].doc)]

\* src.replace(dst)
replace(files, src, dst) ==
  IF src = dst THEN files
  ELSE [files EXCEPT ![dst] = files[src], ![src] = NoFile]

\* the for loop of process_ticker raises: a title that is not a string has no
\* lower(); seen_state.items() needs a mapping
process_ticker_raises(ticker, type, raw_results) ==
  /\ Get(ticker, "enabled", TRUE)
  /\ raw_results # <<>>
  /\ \/ \E i \in 1..Len(raw_results) :
          raw_results[i].url # NoUrl /\ raw_results[i].title = NotAString
     \/ type # "object"

\* the body of "for ticker in tickers" when the exception is swallowed in
\* place of skipping the entity
entity_outcome_unguarded(v, ticker, config, state, type, raw_results) ==
  IF process_ticker_raises(ticker, type, raw_results)
  THEN [NoCall EXCEPT !.symbol = ticker.symbol, !.returned = TRUE,
                      !.result = build_result(ticker.symbol, NoSelection)]
  ELSE process_ticker(v, ticker, config, state, raw_results)

\* the body of "for ticker in tickers": try process_ticker, except continue
entity_outcome(v, ticker, config, state, type, raw_results) ==
  IF process_ticker_raises(ticker, type, raw_results)
  THEN [NoCall EXCEPT !.symbol = ticker.symbol]
  ELSE process_ticker(v, ticker, config, state, raw_results)

\* "Update state with today's URLs" raises: today's entry has no get(), or
\* has no "urls" key
update_raises(state, report_date) ==
  /\ report_date \in DOMAIN state
  /\ \/ ~isinstance_dict(state[report_date])
     \/ "urls" \notin DOMAIN state[report_date]

Files == [state |-> state_file, tmp |-> tmp_file]

SavePcs == {"save_mkdir", "save_open", "save_dump", "save_replace"}

\* two runs at most, on the same day or on the next
MaxFaultRuns == 2

InitFaults ==
  /\ vertical \in Verticals
  /\ ranker_config = CfgTuned
  /\ today = 0
  /\ runs = 0
  /\ state_file \in FileContents(vertical)
  /\ tmp_file = NoFile
  /\ seen_state = Empty
  /\ seen_type = "object"
  /\ pc = "idle"
  /\ idx = 1
  /\ results = <<>>
  /\ all_included_urls = <<>>
  /\ state_written = FALSE
  /\ last = NoCall
  /\ fetched = 0
  /\ probe = [raws |-> <<>>, loaded |-> NoFile]

\* a run starts, after a return, an exception or a crash of the one before
FaultStartRun ==
  /\ pc \in {"idle", "returned", "raised_load", "raised_update", "raised_save", "crashed"}
  /\ runs < MaxFaultRuns
  /\ \E d \in (IF runs = 0 THEN {0} ELSE {0, 1}) : today' = today + d
  /\ runs' = runs + 1
  /\ IF load_raises(state_file)
     THEN /\ pc' = "raised_load"
          /\ UNCHANGED <<seen_state, seen_type>>
     ELSE /\ pc' = "loop"
          /\ seen_state' = load_seen_state(state_file)
          /\ seen_type' = loaded_type(state_file)
  /\ results' = <<>>
  /\ all_included_urls' = <<>>
  /\ state_written' = FALSE
  /\ idx' = 1
  /\ last' = NoCall
  /\ probe' = [raws |-> <<>>, loaded |-> state_file]
  /\ UNCHANGED <<vertical, ranker_config, state_file, tmp_file, fetched>>

\* one turn of the loop over the entities, its exception handler included
FaultProcessEntity ==
  /\ pc = "loop"
  /\ idx <= Len(tickers)
  /\ \E raw \in FaultRaws :
       LET out == entity_outcome(vertical, tickers[idx], ranker_config, seen_state,
                                 seen_type, raw)
       IN  /\ last' = out
           /\ probe' = [probe EXCEPT !.raws = Append(@, raw)]
           /\ results' = IF out.returned THEN Append(results, out.result) ELSE results
           /\ all_included_urls' = all_included_urls \o out.included_urls
  /\ idx' = idx + 1
  /\ UNCHANGED <<vertical, ranker_config, today, runs, state_file, tmp_file, seen_state,
                 seen_type, pc, state_written, fetched>>

\* after the loop: the state update, up to the call of save_seen_state
FaultUpdate ==
  /\ pc = "loop"
  /\ idx > Len(tickers)
  /\ IF all_included_urls = <<>>
     THEN /\ pc' = "returned"
          /\ UNCHANGED seen_state
     ELSE IF update_raises(seen_state, today)
     THEN /\ pc' = "raised_update"
          /\ UNCHANGED seen_state
     ELSE /\ pc' = "save_mkdir"
          /\ seen_state' = update_seen_state(vertical, seen_state, today, all_included_urls)
  /\ UNCHANGED <<vertical, ranker_config, today, runs, state_file, tmp_file, seen_type, idx,
                 results, all_included_urls, state_written, last, fetched, probe>>

\* STATE_DIR.mkdir(parents=True, exist_ok=True)
SaveMkdir ==
  /\ pc = "save_mkdir"
  /\ \E ok \in BOOLEAN : pc' = IF ok THEN "save_open" ELSE "raised_save"
  /\ UNCHANGED <<vertical, ranker_config, today, runs, state_file, tmp_file, seen_state,
                 seen_type, idx, results, all_included_urls, state_written, last,
                 fetched, probe>>

\* open(tmp, "w")
SaveOpen ==
  /\ pc = "save_open"
  /\ \E ok \in BOOLEAN :
       IF ok
       THEN LET after == open_w(Files, with_suffix(StatePath))
            IN  /\ state_file' = after.state
                /\ tmp_file' = after.tmp
                /\ pc' = "save_dump"
       ELSE /\ pc' = "raised_save"
            /\ UNCHANGED <<state_file, tmp_file>>
  /\ UNCHANGED <<vertical, ranker_config, today, runs, seen_state, seen_type, idx,
                 results, all_included_urls, state_written, last, fetched, probe>>

\* json.dump(state, f, indent=2) and the end of the with block: one entry at a
\* time, then the close
SaveDump ==
  /\ pc = "save_dump"
  /\ \E ok \in BOOLEAN :
       LET path  == with_suffix(StatePath)
           after == IF DOMAIN Files[path].doc # DOMAIN seen_state
                    THEN dump_next(Files, path, seen_state)
                    ELSE close_w(Files, path)
       IN  IF ok
           THEN /\ state_file' = after.state
                /\ tmp_file' = after.tmp
                /\ pc' = IF after[path].kind = "json" THEN "save_replace" ELSE "save_dump"
           ELSE /\ pc' = "raised_save"
                /\ UNCHANGED <<state_file, tmp_file>>
  /\ UNCHANGED <<vertical, ranker_config, today, runs, seen_state, seen_type, idx,
                 results, all_included_urls, state_written, last, fetched, probe>>

\* tmp.replace(STATE_FILE), then debug["state_written"] = True and the return
SaveReplace ==
  /\ pc = "save_replace"
  /\ \E ok \in BOOLEAN :
       IF ok
       THEN LET after == replace(Files, with_suffix(StatePath), StatePath)
            IN  /\ state_file' = after.state
                /\ tmp_file' = after.tmp
                /\ state_written' = TRUE
                /\ pc' = "returned"
       ELSE /\ pc' = "raised_save"
            /\ UNCHANGED <<state_file, tmp_file, state_written>>
  /\ UNCHANGED <<vertical, ranker_config, today, runs, seen_state, seen_type, idx,
                 results, all_included_urls, last, fetched, probe>>

\* the process is killed between two steps of save_seen_state
Crash ==
  /\ pc \in SavePcs
  /\ pc' = "crashed"
  /\ UNCHANGED <<vertical, ranker_config, today, runs, state_file, tmp_file, seen_state,
                 seen_type, idx, results, all_included_urls, state_written, last,
                 fetched, probe>>

NextFaults ==
  \/ FaultStartRun
  \/ FaultProcessEntity
  \/ FaultUpdate
  \/ SaveMkdir
  \/ SaveOpen
  \/ SaveDump
  \/ SaveReplace
  \/ Crash

SpecFaults == InitFaults /\ [][NextFaults]_vars

(***************************************************************************)
(* canonicalize_url on the text of a URL: urlparse, parse_qs, urlencode    *)
(* and urlunparse as urllib.parse computes them on strings.                *)
(***************************************************************************)
\* F applied to the value of an expression, the expression evaluated once
Strict(value, F(_)) == CHOOSE r \in {F(x) : x \in {value}} : TRUE

\* s.find(c) for any c of chars: the first index, 0 when there is none
find_any(s, chars) ==
  IF \A i \in 1..Len(s) : s[i] \notin chars THEN 0
  ELSE CHOOSE i \in 1..Len(s) : s[i] \in chars /\ \A j \in 1..(i - 1) : s[j] \notin chars

\* s.rfind(c): the last index, 0 when there is none
rfind(s, c) ==
  IF \A i \in 1..Len(s) : s[i] # c THEN 0
  ELSE CHOOSE i \in 1..Len(s) : s[i] = c /\ \A j \in (i + 1)..Len(s) : s[j] # c

\* s[i:] with i counted from 1
From(s, i) == SubSeq(s, i, Len(s))

\* s.partition(c) for any c of chars: the text before the first one and the
\* text after it; found tells whether there is one
partition(s, chars) ==
  Strict(find_any(s, chars), LAMBDA i :
    IF i = 0 THEN [found |-> FALSE, before |-> s, after |-> <<>>]
    ELSE [found |-> TRUE, before |-> SubSeq(s, 1, i - 1), after |-> From(s, i + 1)])

\* s.split(sep): the pieces between the separators
RECURSIVE split_value(_, _)
split_value(p, sep) ==
  IF ~p.found THEN <<p.before>>
  ELSE <<p.before>> \o Strict(partition(p.after, {sep}), LAMBDA q : split_value(q, sep))

split(s, sep) == Strict(partition(s, {sep}), LAMBDA p : split_value(p, sep))

\* sep.join(pieces)
RECURSIVE join(_, _)
join(pieces, sep) ==
  IF pieces = <<>> THEN <<>>
  ELSE IF Len(pieces) = 1 THEN pieces[1]
  ELSE pieces[1] \o <<sep>> \o join(Tail(pieces), sep)

\* the characters urlsplit accepts in a scheme
SchemeChars == LowerLetters \cup DOMAIN UpperToLower \cup Digits \cup {"+", "-", "."}

\* urlsplit, first step: the scheme is the text before the first colon when it
\* starts with a letter and holds scheme characters only
split_scheme(url) ==
  Strict(find_any(url, {":"}), LAMBDA colon :
    IF /\ colon > 1
       /\ url[1] \in LowerLetters \cup DOMAIN UpperToLower
       /\ \A i \in 1..(colon - 1) : url[i] \in SchemeChars
    THEN [scheme |-> lower(SubSeq(url, 1, colon - 1)), rest |-> From(url, colon + 1)]
    ELSE [scheme |-> <<>>, rest |-> url])

\* second step: after "//" the netloc runs up to the first of "/", "?", "#"
split_netloc(p) ==
  IF Len(p.rest) >= 2 /\ p.rest[1] = "/" /\ p.rest[2] = "/"
  THEN Strict(From(p.rest, 3), LAMBDA after :
         Strict(find_any(after, {"/", "?", "#"}), LAMBDA delim :
           [scheme |-> p.scheme,
            netloc |-> IF delim = 0 THEN after ELSE SubSeq(after, 1, delim - 1),
            rest   |-> IF delim = 0 THEN <<>> ELSE From(after, delim)]))
  ELSE [scheme |-> p.scheme, netloc |-> <<>>, rest |-> p.rest]

\* third step: the fragment after the first "#", then the query after the
\* first "?"; ValueError when the netloc has one bracket without the other
split_rest(p) ==
  Strict(partition(p.rest, {"#"}), LAMBDA f :
    Strict(partition(f.before, {"?"}), LAMBDA q :
      [raises   |-> (find_any(p.netloc, {"["}) > 0) # (find_any(p.netloc, {"]"}) > 0),
       scheme   |-> p.scheme,
       netloc   |-> p.netloc,
       path     |-> q.before,
       query    |-> q.after,
       fragment |-> f.after]))

\* urlparse(url): scheme, netloc, path, query, fragment
urlparse(url) ==
  Strict(url, LAMBDA u :
    Strict(split_scheme(u), LAMBDA p1 :
      Strict(split_netloc(p1), LAMBDA p2 : split_rest(p2))))

\* the host of "host:port" or of "[address]:port"
host_of(hostinfo) ==
  Strict(partition(hostinfo, {"["}), LAMBDA b :
    IF b.found THEN partition(b.after, {"]"}).before
    ELSE partition(hostinfo, {":"}).before)

\* parsed.hostname or "": the netloc without user info and port, the brackets
\* of an address literal removed, in lower case
hostname(netloc) ==
  Strict(From(netloc, rfind(netloc, "@") + 1), LAMBDA hostinfo : lower(host_of(hostinfo)))

\* the percent escapes of the characters the inputs use
Unescape ==
  (<<"2","0">> :> " ") @@
  (<<"2","6">> :> "&") @@
  (<<"3","D">> :> "=") @@
  (<<"2","B">> :> "+") @@
  (<<"2","5">> :> "%") @@
  (<<"7","5">> :> "u") @@
  (<<"2","F">> :> "/") @@
  (<<"3","F">> :> "?") @@
  (<<"2","3">> :> "#") @@
  (<<"3","A">> :> ":")

Escape ==
  ("&" :> <<"%","2","6">>) @@
  ("=" :> <<"%","3","D">>) @@
  ("+" :> <<"%","2","B">>) @@
  ("%" :> <<"%","2","5">>) @@
  ("/" :> <<"%","2","F">>) @@
  ("?" :> <<"%","3","F">>) @@
  ("#" :> <<"%","2","3">>) @@
  (":" :> <<"%","3","A">>)

\* the characters quote_plus leaves as they are
SafeChars == LowerLetters \cup DOMAIN UpperToLower \cup Digits \cup {"_", ".", "-", "~"}

\* unquote(s.replace('+', ' '))
RECURSIVE unquote_plus(_)
unquote_plus(s) ==
  IF s = <<>> THEN <<>>
  ELSE IF Head(s) = "+" THEN <<" ">> \o unquote_plus(Tail(s))
  ELSE IF Head(s) = "%" /\ Len(s) >= 3 /\ <<s[2], s[3]>> \in DOMAIN Unescape
       THEN <<Unescape[<<s[2], s[3]>>]>> \o unquote_plus(From(s, 4))
  ELSE <<Head(s)>> \o unquote_plus(Tail(s))

\* quote_plus(s)
RECURSIVE quote_plus(_)
quote_plus(s) ==
  IF s = <<>> THEN <<>>
  ELSE (IF Head(s) \in SafeChars THEN <<Head(s)>>
        ELSE IF Head(s) = " " THEN <<"+">>
        ELSE Escape[Head(s)]) \o quote_plus(Tail(s))

\* one piece of the query: its decoded name and value; nothing for a piece
\* without "=" or with a blank value
parse_pair(nv) ==
  Strict(partition(nv, {"="}), LAMBDA p :
    IF ~p.found \/ p.after = <<>> THEN <<>>
    ELSE <<<<unquote_plus(p.before), unquote_plus(p.after)>>>>)

\* parse_qsl(query): the name=value pairs between the ampersands, decoded
RECURSIVE parse_qsl(_)
parse_qsl(pieces) ==
  IF pieces = <<>> THEN <<>>
  ELSE parse_pair(Head(pieces)) \o parse_qsl(Tail(pieces))

\* one more pair entered in the dict of parse_qs
add_value(init, p) ==
  IF \E i \in 1..Len(init) : init[i][1] = p[1]
  THEN [i \in 1..Len(init) |->
          IF init[i][1] = p[1] THEN <<init[i][1], Append(init[i][2], p[2])>>
          ELSE init[i]]
  ELSE Append(init, <<p[1], <<p[2]>>>>)

\* parse_qs(query): name -> list of values, names in order of first appearance
RECURSIVE group_values(_)
group_values(pairs) ==
  IF pairs = <<>> THEN <<>>
  ELSE Strict(group_values(SubSeq(pairs, 1, Len(pairs) - 1)),
              LAMBDA init : add_value(init, pairs[Len(pairs)]))

\* urlencode(qs, doseq=True) as text
urlencode_text(qs) ==
  Strict(urlencode(qs), LAMBDA pairs :
    join([i \in 1..Len(pairs) |->
            quote_plus(pairs[i][1]) \o <<"=">> \o quote_plus(pairs[i][2])], "&"))

\* the loop "for param in strip_params: qs.pop(param, None)" that pops nothing
strip_nothing(qs, strip_params) == qs

\* the loop "for param in strip_params: qs.pop(param, None)"
strip_query(qs, strip_params) ==
  SelectSeq(qs, LAMBDA e : \A i \in 1..Len(strip_params) : strip_params[i] # e[1])

\* urlunparse(("https", hostname, path, "", query, ""))
urlunparse(netloc, path, query) ==
  LET url == IF netloc # <<>> \/ Prefix(path, 2) # <<"/", "/">>
             THEN <<"/", "/">> \o netloc \o
                  (IF path # <<>> /\ path[1] # "/" THEN <<"/">> \o path ELSE path)
             ELSE path
  IN  <<"h", "t", "t", "p", "s", ":">> \o url \o
      (IF query # <<>> THEN <<"?">> \o query ELSE <<>>)

\* the query of the canonical URL
canonical_query(query, strip_params) ==
  IF query = <<>> THEN <<>>
  ELSE Strict(split(query, "&"), LAMBDA pieces :
         Strict(parse_qsl(pieces), LAMBDA pairs :
           Strict(group_values(pairs), LAMBDA qs :
             Strict(strip_query(qs, strip_params), urlencode_text))))

\* canonicalize_url(url, strip_params) on the text of the URL
canonicalize_text(url, strip_params) ==
  Strict(urlparse(url), LAMBDA parsed :
    IF parsed.raises THEN rstrip(lower(url), {"/"})
    ELSE urlunparse(hostname(parsed.netloc), rstrip(parsed.path, {"/"}),
                    canonical_query(parsed.query, strip_params)))

\* the parts the URLs of the calls are made of
UrlPrefixes ==
  {<<"h","t","t","p",":","/","/">>,
   <<"H","T","T","P","S",":","/","/">>,
   <<>>}

UrlNetlocs ==
  {<<"r","e","u","t","e","r","s",".","c","o","m">>,
   <<"W","W","W",".","B","l","o","g",".","i","o",":","8","0","8","0">>,
   <<"[",":",":","1","]">>,
   <<"[",":",":","1">>}

UrlPaths ==
  {<<>>,
   <<"/","a">>,
   <<"/","a","/">>}

UrlQueries ==
  {<<>>,
   <<"u","t","m","_","s","o","u","r","c","e","=","x">>,
   <<"b","=","1","&","u","t","m","_","s","o","u","r","c","e","=","x","&","a","=","2">>,
   <<"b","=","1","&","a","=","2","&","b","=","3">>,
   <<"q","=","a","+","b","%","2","6","c">>}

UrlFragments ==
  {<<>>,
   <<"x">>}

P_utm_source == <<"u","t","m","_","s","o","u","r","c","e">>

\* the values a tracking parameter is given
TrackValues ==
  {<<"x">>,
   <<"a","+","b">>}

\* strip_query_params of the calls
TextStripLists == {<<>>, <<P_utm_source>>}

\* the text of a URL with the given parts
UrlText(prefix, netloc, path, query, fragment) ==
  prefix \o netloc \o path \o
  (IF query # <<>> THEN <<"?">> \o query ELSE <<>>) \o
  (IF fragment # <<>> THEN <<"#">> \o fragment ELSE <<>>)

\* the query with name=value added in front (at_front) or at the end
with_param(query, name, value, at_front) ==
  LET pair == name \o <<"=">> \o value
  IN  IF query = <<>> THEN pair
      ELSE IF at_front THEN pair \o <<"&">> \o query
      ELSE query \o <<"&">> \o pair

\* the texts the calls are made on: every URL, with and without the added
\* parameter
UrlTexts ==
  {UrlText(prefix, netloc, path, query, fragment) :
     prefix \in UrlPrefixes, netloc \in UrlNetlocs, path \in UrlPaths,
     query \in UrlQueries \cup
               {with_param(q, P_utm_source, value, at_front) :
                  q \in UrlQueries, value \in TrackValues, at_front \in BOOLEAN},
     fragment \in UrlFragments}

\* canonicalize_url over these texts, and over its own results
CanonOnce ==
  [strip_params \in TextStripLists |->
     [url \in UrlTexts |-> canonicalize_text(url, strip_params)]]

CanonTwice ==
  [strip_params \in TextStripLists |->
     [url \in {CanonOnce[strip_params][u] : u \in UrlTexts} |->
        canonicalize_text(url, strip_params)]]

InitCanon ==
  /\ vertical = "stocks"
  /\ ranker_config = CfgDefault
  /\ today = 0
  /\ runs = 0
  /\ state_file = NoFile
  /\ tmp_file = NoFile
  /\ seen_state = Empty
  /\ seen_type = "object"
  /\ pc = "idle"
  /\ idx = 1
  /\ results = <<>>
  /\ all_included_urls = <<>>
  /\ state_written = FALSE
  /\ last = NoCall
  /\ fetched = 0
  /\ \E prefix \in UrlPrefixes, netloc \in UrlNetlocs, path \in UrlPaths,
        query \in UrlQueries, fragment \in UrlFragments :
       \E strip_params \in TextStripLists, value \in TrackValues, at_front \in BOOLEAN :
         probe = [called       |-> FALSE,
                  url          |-> UrlText(prefix, netloc, path, query, fragment),
                  tracked      |-> UrlText(prefix, netloc, path,
                                           with_param(query, P_utm_source, value, at_front),
                                           fragment),
                  strip_params |-> strip_params]

\* canonicalize_url on the URL, on its own result, and on the URL with the
\* tracking parameter added
CanonProbe ==
  /\ ~probe.called
  /\ probe' = ("called" :> TRUE) @@
              ("once" :> CanonOnce[probe.strip_params][probe.url]) @@
              ("twice" :> CanonTwice[probe.strip_params][CanonOnce[probe.strip_params][probe.url]]) @@
              ("of_tracked" :> CanonOnce[probe.strip_params][probe.tracked]) @@
              probe
  /\ UNCHANGED <<vertical, ranker_config, today, runs, state_file, tmp_file, seen_state,
                 seen_type, pc, idx, results, all_included_urls, state_written, last,
                 fetched>>

NextCanon == CanonProbe

SpecCanon == InitCanon /\ [][NextCanon]_vars

(***************************************************************************)
(* The two word-overlap rules called on pairs of titles.                   *)
(***************************************************************************)
ProbeTitles ==
  {<<"O","p","e","n","A","I"," ","l","a","u","n","c","h","e","s"," ","n","e","w"," ","m","o","d","e","l">>,
   <<"O","p","e","n","A","I"," ","l","a","u","n","c","h","e","s"," ","n","e","w"," ","m","o","d","e","l"," ","f","o","r"," ","c","o","d","e","r","s">>,
   <<"o","p","e","n","a","i"," ","L","A","U","N","C","H","E","S"," ","m","o","d","e","l","!">>,
   <<"T","h","e"," ","n","e","w"," ","m","o","d","e","l">>,
   <<"t","h","e"," ","o","f"," ","a","n","d">>,
   <<>>,
   <<"N","e","w"," ","c","h","i","p"," ","f","r","o","m"," ","N","v","i","d","i","a">>,
   <<"N","v","i","d","i","a"," ","c","h","i","p">>,
   <<"N","v","i","d","i","a"," ","u","n","v","e","i","l","s"," ","n","e","w"," ","c","h","i","p"," ","a","n","d"," ","m","o","d","e","l">>,
   <<"o","n","e"," ","t","w","o"," ","t","h","r","e","e"," ","f","o","u","r"," ","f","i","v","e"," ","s","i","x"," ","s","e","v","e","n"," ","e","i","g","h","t"," ","n","i","n","e">>,
   <<"o","n","e"," ","t","w","o"," ","t","h","r","e","e"," ","f","o","u","r"," ","f","i","v","e"," ","x"," ","y"," ","z"," ","w">>}

InitSimilar ==
  /\ vertical \in Verticals
  /\ ranker_config = CfgDefault
  /\ today = 0
  /\ runs = 0
  /\ state_file = NoFile
  /\ tmp_file = NoFile
  /\ seen_state = Empty
  /\ seen_type = "object"
  /\ pc = "idle"
  /\ idx = 1
  /\ results = <<>>
  /\ all_included_urls = <<>>
  /\ state_written = FALSE
  /\ last = NoCall
  /\ fetched = 0
  /\ \E a \in ProbeTitles, b \in ProbeTitles : probe = [called |-> FALSE, a |-> a, b |-> b]

\* both rules, on the pair and on the pair reversed
SimilarProbe ==
  /\ ~probe.called
  /\ probe' = ("called" :> TRUE) @@
              ("similar_ab" :> similar(probe.a, probe.b)) @@
              ("similar_ba" :> similar(probe.b, probe.a)) @@
              ("overlap_ab" :> titles_overlap(probe.a, probe.b, OverlapThreshold)) @@
              ("overlap_ba" :> titles_overlap(probe.b, probe.a, OverlapThreshold)) @@
              probe
  /\ UNCHANGED <<vertical, ranker_config, today, runs, state_file, tmp_file, seen_state,
                 seen_type, pc, idx, results, all_included_urls, state_written, last,
                 fetched>>

NextSimilar == SimilarProbe

SpecSimilar == InitSimilar /\ [][NextSimilar]_vars

(***************************************************************************)
(* score_story called on two stories that differ in published_at only.     *)
(***************************************************************************)
\* a ranker file with a short half-life and a high floor
CfgFloor ==
  [sources   |-> ("reuters" :> [trust |-> 60, speed |-> 60, tier |-> 2]),
   freshness |-> [half_life_minutes |-> 30, floor |-> 50]]

FreshConfigs == ProbeConfigs \cup {CfgFloor}

\* ages in minutes, the newest first
FreshMinutes == <<0, 1, 20, 29, 30, 180, 719, 720, 1440, 5000, 100000>>

InitFresh ==
  /\ vertical \in Verticals
  /\ ranker_config \in FreshConfigs
  /\ today = 0
  /\ runs = 0
  /\ state_file = NoFile
  /\ tmp_file = NoFile
  /\ seen_state = Empty
  /\ seen_type = "object"
  /\ pc = "idle"
  /\ idx = 1
  /\ results = <<>>
  /\ all_included_urls = <<>>
  /\ state_written = FALSE
  /\ last = NoCall
  /\ fetched = 0
  /\ \E source_key \in ProbeSources, i \in 1..Len(FreshMinutes), j \in 1..Len(FreshMinutes) :
       /\ i <= j
       /\ probe = [called |-> FALSE, source_key |-> source_key,
                   event_tags |-> <<"other">>, seen_tags |-> {},
                   newer |-> [published_at |-> FreshMinutes[i], unique_sources |-> 1],
                   older |-> [published_at |-> FreshMinutes[j], unique_sources |-> 1]]

\* the two calls of score_story
FreshProbe ==
  /\ ~probe.called
  /\ probe' = ("called" :> TRUE) @@
              ("out_newer" :> score_story(vertical, probe.newer, probe.source_key,
                                          probe.event_tags, ranker_config, probe.seen_tags)) @@
              ("out_older" :> score_story(vertical, probe.older, probe.source_key,
                                          probe.event_tags, ranker_config, probe.seen_tags)) @@
              probe
  /\ UNCHANGED <<vertical, ranker_config, today, runs, state_file, tmp_file, seen_state,
                 seen_type, pc, idx, results, all_included_urls, state_written, last,
                 fetched>>

NextFresh == FreshProbe

SpecFresh == InitFresh /\ [][NextFresh]_vars

(***************************************************************************)
(* AI-news lane: score_candidate and deduplicate (ai_news_skill.py).       *)
(***************************************************************************)
\* the keyword groups of score_candidate and the points each one adds
title_keywords ==
  <<[points |-> 20, keywords |-> {<<"r","e","l","e","a","s","e">>, <<"l","a","u","n","c","h">>, <<"a","n","n","o","u","n","c","e","d">>, <<"i","n","t","r","o","d","u","c","e","s">>}],
    [points |-> 15, keywords |-> {<<"r","e","g","u","l","a","t","i","o","n">>, <<"b","a","n">>, <<"p","o","l","i","c","y">>, <<"l","a","w">>, <<"c","o","n","g","r","e","s","s">>}],
    [points |-> 12, keywords |-> {<<"b","i","l","l","i","o","n">>, <<"f","u","n","d","i","n","g">>, <<"r","a","i","s","e","s">>, <<"a","c","q","u","i","s","i","t","i","o","n">>}],
    [points |-> 10, keywords |-> {<<"c","h","i","p">>, <<"h","a","r","d","w","a","r","e">>, <<"g","p","u">>, <<"t","p","u">>}],
    [points |-> 5, keywords |-> {<<"r","e","s","e","a","r","c","h">>, <<"p","a","p","e","r">>, <<"a","r","x","i","v">>, <<"s","t","u","d","y">>}]>>

\* score_candidate(c), in quarters of a point
score_candidate(c) ==
  LET authority == Get(c, "authority", 50)
      hn2       == 2 * Get(c, "hn_score", 0) + Get(c, "hn_comments", 0)
      title     == lower(Get(c, "title", <<>>))
      bonus     == SeqSum([i \in 1..Len(title_keywords) |->
                     IF \E k \in title_keywords[i].keywords : Contains(title, k)
                     THEN title_keywords[i].points ELSE 0])
      primary   == IF Get(c, "lane", "") = "primary" THEN 25 ELSE 0
  IN  6 * authority + Min(hn2, 400) + 4 * bonus + 4 * primary

T_model == <<"O","p","e","n","A","I"," ","l","a","u","n","c","h","e","s"," ","n","e","w"," ","m","o","d","e","l">>
T_model_long == <<"O","p","e","n","A","I"," ","l","a","u","n","c","h","e","s"," ","n","e","w"," ","m","o","d","e","l"," ","f","o","r"," ","c","o","d","e","r","s">>
T_chip == <<"N","v","i","d","i","a"," ","c","h","i","p">>
T_chip_model == <<"N","v","i","d","i","a"," ","u","n","v","e","i","l","s"," ","n","e","w"," ","c","h","i","p"," ","a","n","d"," ","m","o","d","e","l">>
T_the_model == <<"T","h","e"," ","n","e","w"," ","m","o","d","e","l">>
T_funding == <<"S","t","a","r","t","u","p"," ","r","a","i","s","e","s"," ","f","u","n","d","i","n","g">>

\* the candidates the lanes can hand to deduplicate
Candidates ==
  {[title |-> T_model, authority |-> 90, hn_score |-> 0, hn_comments |-> 0, lane |-> "primary"],
   [title |-> T_model_long, authority |-> 60, hn_score |-> 300, hn_comments |-> 40, lane |-> "hn"],
   [title |-> T_chip, authority |-> 40, hn_score |-> 0, hn_comments |-> 0, lane |-> "arxiv"],
   [title |-> T_chip_model, authority |-> 70, hn_score |-> 10, hn_comments |-> 5, lane |-> "brave"],
   [title |-> T_the_model, authority |-> 70, hn_score |-> 20, hn_comments |-> 0, lane |-> "brave"],
   [title |-> T_funding, authority |-> 40, hn_score |-> 0, hn_comments |-> 0, lane |-> "arxiv"],
   [title |-> <<>>, lane |-> "brave"]}

CandidateTitles == {c.title : c \in Candidates}

\* similar(a, b) of deduplicate, evaluated once for the titles of Candidates
SimilarTable == [a \in CandidateTitles |-> [b \in CandidateTitles |-> similar(a, b)]]

\* score_candidate, evaluated once for the candidates
ScoreTable == [c \in Candidates |-> score_candidate(c)]

\* the candidates in the order given
unsorted(candidates) == candidates

\* sorted(candidates, key=score_candidate, reverse=True): stable, highest first
RECURSIVE sorted_by_score_candidate(_)
sorted_by_score_candidate(candidates) ==
  IF candidates = <<>> THEN <<>>
  ELSE
    LET done == sorted_by_score_candidate(SubSeq(candidates, 1, Len(candidates) - 1))
        c    == candidates[Len(candidates)]
        k    == Cardinality({i \in 1..Len(done) : ScoreTable[done[i]] >= ScoreTable[c]})
    IN  SubSeq(done, 1, k) \o <<c>> \o SubSeq(done, k + 1, Len(done))

\* the loop of deduplicate over the sorted candidates
RECURSIVE dedupe_loop(_, _)
dedupe_loop(ordered, kept) ==
  IF ordered = <<>> THEN kept
  ELSE
    LET c == Head(ordered)
    IN  IF \E i \in 1..Len(kept) : SimilarTable[c.title][kept[i].title]
        THEN dedupe_loop(Tail(ordered), kept)
        ELSE dedupe_loop(Tail(ordered), Append(kept, c))

deduplicate(candidates) == dedupe_loop(sorted_by_score_candidate(candidates), <<>>)

\* the longest list handed to deduplicate
MaxCandidates == 3

CandidateLists == UNION {[1..n -> Candidates] : n \in 0..MaxCandidates}

InitDedupe ==
  /\ vertical = "ai_news"
  /\ ranker_config = CfgDefault
  /\ today = 0
  /\ runs = 0
  /\ state_file = NoFile
  /\ tmp_file = NoFile
  /\ seen_state = Empty
  /\ seen_type = "object"
  /\ pc = "idle"
  /\ idx = 1
  /\ results = <<>>
  /\ all_included_urls = <<>>
  /\ state_written = FALSE
  /\ last = NoCall
  /\ fetched = 0
  /\ \E candidates \in CandidateLists : probe = [called |-> FALSE, candidates |-> candidates]

\* the call of deduplicate
DedupeProbe ==
  /\ ~probe.called
  /\ probe' = ("called" :> TRUE) @@ ("kept" :> deduplicate(probe.candidates)) @@ probe
  /\ UNCHANGED <<vertical, ranker_config, today, runs, state_file, tmp_file, seen_state,
                 seen_type, pc, idx, results, all_included_urls, state_written, last,
                 fetched>>

NextDedupe == DedupeProbe

SpecDedupe == InitDedupe /\ [][NextDedupe]_vars

(***************************************************************************)
(* map_domain_to_source called on the hosts of the table and their         *)
(* neighbours.                                                             *)
(***************************************************************************)
\* str.upper()
upper(s) ==
  [i \in 1..Len(s) |->
     IF \E c \in DOMAIN UpperToLower : UpperToLower[c] = s[i]
     THEN CHOOSE c \in DOMAIN UpperToLower : UpperToLower[c] = s[i]
     ELSE s[i]]

Www == <<"w","w","w",".">>

\* hosts that are no key of the table, with or without "www."
OtherHosts ==
  {<<"b","l","o","g",".","i","o">>,
   <<"w","w",".","r","e","u","t","e","r","s",".","c","o","m">>,
   <<".","r","e","u","t","e","r","s",".","c","o","m">>,
   <<"w","e","b",".","w","s","j",".","c","o","m">>,
   <<>>}

\* the hosts a URL of a record can name: each key of the table and each other
\* host, bare and behind "www.", in lower and in upper case
ProbeHosts(v) ==
  LET bare == DOMAIN DOMAIN_TO_SOURCE(v) \cup OtherHosts
      both == bare \cup {Www \o h : h \in bare} \cup {Www \o Www \o h : h \in OtherHosts}
  IN  both \cup {upper(h) : h \in both}

InitDomain ==
  /\ vertical \in Verticals
  /\ ranker_config = CfgDefault
  /\ today = 0
  /\ runs = 0
  /\ state_file = NoFile
  /\ tmp_file = NoFile
  /\ seen_state = Empty
  /\ seen_type = "object"
  /\ pc = "idle"
  /\ idx = 1
  /\ results = <<>>
  /\ all_included_urls = <<>>
  /\ state_written = FALSE
  /\ last = NoCall
  /\ fetched = 0
  /\ \E host \in ProbeHosts(vertical), scheme \in {"http", "https"} :
       probe = [called |-> FALSE, url |-> Url(scheme, host, <<"/", "a">>, <<>>, "")]

\* the call of map_domain_to_source
DomainProbe ==
  /\ ~probe.called
  /\ probe' = ("called" :> TRUE) @@
              ("source" :> map_domain_to_source(vertical, probe.url)) @@ probe
  /\ UNCHANGED <<vertical, ranker_config, today, runs, state_file, tmp_file, seen_state,
                 seen_type, pc, idx, results, all_included_urls, state_written, last,
                 fetched>>

NextDomain == DomainProbe

SpecDomain == InitDomain /\ [][NextDomain]_vars

(***************************************************************************)
(* Properties.                                                             *)
(***************************************************************************)
\* what the properties read of the entity the loop processed last
Thresholds == Get(ranker_config, "thresholds", Empty)
SeqSet(s) == {s[i] : i \in 1..Len(s)}
Picked == last.top_stories \o last.glance_stories
PickedKeys == {Picked[i].cluster_key : i \in 1..Len(Picked)}

\* the URLs a state lists under the dates day - k .. day
SeenWithin(state, day, k) ==
  UNION {SeqSet(state[d].urls) : d \in {x \in DOMAIN state : day - k <= x /\ x <= day}}

\* C1 (Fresh-Only exclusion): when the loaded state lists a canonical URL under
\* today's or yesterday's date, no cluster placed in top_stories or glance has
\* a member with that canonical URL, at whatever position in the cluster.
C1_FreshOnlyExclusion ==
  pc = "loop" =>
    \A i \in 1..Len(last.clusters) :
      last.clusters[i].key \in PickedKeys =>
        \A j \in 1..Len(last.clusters[i].urls) :
          last.clusters[i].urls[j].canonical \notin SeenWithin(seen_state, today, 1)

\* C2 (at-most-once inclusion): the canonical URLs included so far in a run are
\* pairwise different, across its entities, and none of them is listed by the
\* loaded state inside the lookback window.
C2_AtMostOnce ==
  /\ \A i, j \in 1..Len(all_included_urls) :
       i # j => all_included_urls[i] # all_included_urls[j]
  /\ \A i \in 1..Len(all_included_urls) :
       all_included_urls[i] \notin SeenWithin(seen_state, today, exclude_count(ranker_config))

\* C3 (inclusions are recorded): once a run that included a story has
\* returned, the persisted entry of the run's date lists every canonical URL
\* an entity placed in top_stories or glance during the run.
C3_IncludedRecorded ==
  (pc = "returned" /\ all_included_urls # <<>>) =>
    /\ state_file.kind = "json"
    /\ today \in DOMAIN state_file.doc
    /\ SeqSet(all_included_urls) \subseteq SeqSet(state_file.doc[today].urls)

\* reached: the second run of a day adds its URLs to the entry of the first
C3_Witness ==
  /\ pc = "returned"
  /\ runs = 2
  /\ all_included_urls # <<>>
  /\ state_file.kind = "json"
  /\ today \in DOMAIN state_file.doc
  /\ SeqSet(all_included_urls) \subseteq SeqSet(state_file.doc[today].urls)
  /\ SeqSet(state_file.doc[today].urls) \ SeqSet(all_included_urls) # {}

\* C4 (lookback window): a cluster whose canonical URL the loaded state lists
\* under no date of the lookback window passes the Fresh-Only filter, also
\* when an older date inside the retention window lists it.
C4_LookbackOnly ==
  pc = "loop" =>
    \A i \in 1..Len(last.clusters) :
      last.clusters[i].urls[1].canonical
          \notin SeenWithin(seen_state, today, exclude_count(ranker_config))
        => \E k \in 1..Len(last.scored) : last.scored[k].cluster_key = last.clusters[i].key

\* C5 (score boundedness): score_story returns a score between 0 and 100
\* (in 1/10000 point: between 0 and 1000000).
C5_ScoreBounded ==
  probe.called => (0 <= probe.out.score /\ probe.out.score <= 1000000)

\* reached: the terms add up to more than 100 and the score returned is 100
C5_Witness ==
  /\ probe.called
  /\ probe.out.raw > 1000000
  /\ probe.out.score = 1000000

\* C6 (tier exclusivity and caps): for the entity just processed, top_stories
\* and glance together hold at most max_top + max_glance stories more than
\* there are stories scoring must_include_score or above, glance holds at
\* most max_glance, and no story is in two places of the two lists.
C6_TierCaps ==
  LET must == SelectSeq(last.scored, LAMBDA s : s.score >= must_include_score(Thresholds))
  IN  /\ Len(Picked) <= Len(must) + max_top(Thresholds) + max_glance(Thresholds)
      /\ Len(last.glance_stories) <= max_glance(Thresholds)
      /\ \A i, j \in 1..Len(Picked) :
           i # j => Picked[i].cluster_key # Picked[j].cluster_key

\* reached: top_stories is filled, glance is full, and a story of the glance
\* range whose first tag no top story carries is left out
C6_Witness ==
  /\ last.top_stories # <<>>
  /\ Len(last.glance_stories) = max_glance(Thresholds)
  /\ \E k \in 1..Len(last.scored) :
       /\ glance_low(Thresholds) <= last.scored[k].score
       /\ last.scored[k].score <= glance_high(Thresholds)
       /\ last.scored[k].cluster_key \notin PickedKeys
       /\ \A i \in 1..Len(last.top_stories) :
            last.top_stories[i].tags[1] # last.scored[k].tags[1]

\* the primary tag of a tag list: the tag of the highest configured weight,
\* the first of them in the order of the vocabulary (the order of the list)
primary_tag(v, config, tags) ==
  LET w(t) == tag_weight(v, Get(config, "event_weights", Empty), t)
      best == {i \in 1..Len(tags) : \A j \in 1..Len(tags) : w(tags[j]) <= w(tags[i])}
  IN  tags[CHOOSE i \in best : \A j \in best : i <= j]

\* C7 (glance diversity): no story in glance has the primary tag of a story in
\* top_stories of the same entity.
C7_GlanceDiversity ==
  \A g \in 1..Len(last.glance_stories), t \in 1..Len(last.top_stories) :
    primary_tag(vertical, ranker_config, last.glance_stories[g].tags)
      # primary_tag(vertical, ranker_config, last.top_stories[t].tags)

\* C8 (must-include is uncapped): every fresh story of the entity that scores
\* must_include_score or above is in top_stories.
C8_MustIncludeUncapped ==
  \A k \in 1..Len(last.scored) :
    last.scored[k].score >= must_include_score(Thresholds) =>
      \E i \in 1..Len(last.top_stories) :
        last.top_stories[i].cluster_key = last.scored[k].cluster_key

\* reached: more stories score must_include_score or above than max_top
\* allows, and top_stories holds them all
C8_Witness ==
  LET must == SelectSeq(last.scored, LAMBDA s : s.score >= must_include_score(Thresholds))
  IN  /\ Len(must) > max_top(Thresholds)
      /\ last.top_stories = must

\* the fresh stories of the top range, and the top stories below must-include
TopRange ==
  SelectSeq(last.scored, LAMBDA s : /\ top_min_score(Thresholds) <= s.score
                                    /\ s.score < must_include_score(Thresholds))
TopTier == SelectSeq(last.top_stories, LAMBDA s : s.score < must_include_score(Thresholds))
MustCount ==
  Len(SelectSeq(last.scored, LAMBDA s : s.score >= must_include_score(Thresholds)))
Descending(s) == \A i, j \in 1..Len(s) : i < j => s[i].score >= s[j].score

\* C9 as stated (top tier): the top tier is the min(max_top, n) highest-scoring
\* stories of the top range in descending score order, whatever the number of
\* must-include stories.
C9_TopTierOwnSlots ==
  /\ Descending(last.scored)
  /\ TopTier = SubSeq(TopRange, 1, Min(max_top(Thresholds), Len(TopRange)))

\* C9 (top tier, amended): the top tier is the min(max(0, max_top - m), n)
\* highest-scoring stories of the top range in descending score order, m being
\* the number of must-include stories: they take slots of max_top first.
C9_TopTierSharedSlots ==
  /\ Descending(last.scored)
  /\ TopTier = SubSeq(TopRange, 1,
                      Min(Max(0, max_top(Thresholds) - MustCount), Len(TopRange)))

\* reached: a must-include story has taken the slot and a story of the top
\* range is left out
C9_Witness ==
  /\ MustCount >= 1
  /\ Len(TopRange) >= 1
  /\ Len(TopTier) < Min(max_top(Thresholds), Len(TopRange))

\* C10 (presence): the entity just processed is in the run's output if and
\* only if it has a story in top_stories or glance, and no entity of the
\* output has two empty lists.
C10_PresentIffStory ==
  /\ last.symbol # "" =>
       ((\E i \in 1..Len(results) : results[i].symbol = last.symbol)
          <=> (last.top_stories # <<>> \/ last.glance_stories # <<>>))
  /\ \A i \in 1..Len(results) :
       results[i].top_stories # <<>> \/ results[i].glance # <<>>

\* reached: the first entity is in the output and the second, whose
\* candidates all fall below the thresholds or are filtered, is not
C10_Witness ==
  /\ Len(results) = 1
  /\ last.symbol # ""
  /\ last.symbol # results[1].symbol
  /\ last.clusters # <<>>
  /\ last.top_stories = <<>>
  /\ last.glance_stories = <<>>

\* the source domain of a record: the lowercase host of its URL
domain_of(url) == lower(url.host)

\* the cluster of the call that holds both records, if there is one
MergedCluster(a, b) ==
  {k \in 1..Len(last.clusters) :
     {a.url, b.url} \subseteq {last.clusters[k].urls[m].original :
                                 m \in 1..Len(last.clusters[k].urls)}}

\* C11: two candidates of one entity from different source domains whose
\* titles overlap above the similarity threshold are merged into one story
\* with unique_sources = 2, and where that story is scored its score carries
\* a non-zero corroboration boost
C11_CrossSourceMerged ==
  probe.called =>
    \A i, j \in 1..Len(probe.raw) :
      LET a == probe.raw[i]
          b == probe.raw[j]
      IN  ( /\ a.url # NoUrl /\ b.url # NoUrl
            /\ domain_of(a.url) # domain_of(b.url)
            /\ titles_overlap(a.title, b.title, OverlapThreshold) )
          => \E k \in MergedCluster(a, b) :
               /\ Cardinality(last.clusters[k].sources) = 2
               /\ \A n \in 1..Len(last.scored) :
                    last.scored[n].cluster_key = last.clusters[k].key
                    => /\ last.scored[n].unique_sources = 2
                       /\ last.scored[n].why_ranked.confirm > 0

\* C12: the stories of one entity's output (top_stories and glance together)
\* have pairwise different canonical URLs, candidates with equal canonical
\* URLs having been placed in one cluster
C12_OneStoryPerCanonical ==
  probe.called =>
    \A i, j \in 1..Len(Picked) :
      Picked[i].canonical_url = Picked[j].canonical_url => i = j

\* C13: at every point of save_seen_state, a crash between two of its steps
\* included, the file at the state path holds the complete previous state or
\* the complete new one; partially written content exists only at the
\* temporary path
C13_AtomicWrite ==
  /\ [](state_file.kind # "partial")
  /\ [][state_file' # state_file
         => (pc = "save_replace" /\ state_file' = save_seen_state(seen_state))]_vars

\* a crash has left a partly written temporary file beside the previous state
C13_Witness ==
  /\ pc = "crashed"
  /\ tmp_file.kind = "partial"
  /\ tmp_file.doc # Empty
  /\ state_file.kind = "json"
  /\ state_file = probe.loaded

\* the state file is not a JSON object of {urls: [...]} entries
Corrupt(file) ==
  \/ file.kind \in {"unreadable", "undecodable", "invalid", "partial"}
  \/ /\ file.kind = "json"
     /\ \/ file.top # "object"
        \/ \E d \in DOMAIN file.doc :
             ~isinstance_dict(file.doc[d]) \/ "urls" \notin DOMAIN file.doc[d]

\* the results and the URLs of the loop over the given entities, none of which
\* raises, each with its own collector answer
RECURSIVE run_loop(_, _, _, _, _)
run_loop(v, config, state, entities, raws) ==
  IF entities = <<>> THEN [results |-> <<>>, urls |-> <<>>]
  ELSE LET n      == Len(entities)
           before == run_loop(v, config, state, SubSeq(entities, 1, n - 1),
                              SubSeq(raws, 1, n - 1))
           out    == process_ticker(v, entities[n], config, state, raws[n])
       IN  [results |-> IF out.returned THEN Append(before.results, out.result)
                        ELSE before.results,
            urls    |-> before.urls \o out.included_urls]

\* the entities processed so far whose collector answer holds no record of the
\* wrong type
Sound == SelectSeq([i \in 1..Len(probe.raws) |-> i],
                   LAMBDA i : ~process_ticker_raises(tickers[i], "object", probe.raws[i]))

\* C14: whatever the state file holds, the run does not fail because of it:
\* with a corrupt file it treats the state as empty, processes every entity
\* as it would with no state, and no exception of the load or of the state
\* update leaves the run
C14_CorruptStateHarmless ==
  /\ pc \notin {"raised_load", "raised_update"}
  /\ (Corrupt(probe.loaded) /\ pc = "loop")
       => LET expect == run_loop(vertical, ranker_config, Empty,
                                 [k \in 1..Len(Sound) |-> tickers[Sound[k]]],
                                 [k \in 1..Len(Sound) |-> probe.raws[Sound[k]]])
          IN  results = expect.results /\ all_included_urls = expect.urls

\* C15: a failure of save_seen_state at any of its steps does not leave the
\* run as an exception
C15_SaveFailureContained == pc # "raised_save"

\* the entities processed so far whose processing raised no exception
Passing == SelectSeq([i \in 1..Len(probe.raws) |-> i],
                     LAMBDA i : ~process_ticker_raises(tickers[i], seen_type, probe.raws[i]))

C17_RetentionPruned ==
  state_written =>
    /\ state_file.kind = "json"
    /\ \A d \in DOMAIN state_file.doc : d >= today - RetentionDays

\* the loaded state had a key one day past the window and one on its edge; the
\* written file keeps the one on the edge
C17_Witness ==
  /\ state_written
  /\ probe.loaded.kind = "json"
  /\ (today - RetentionDays - 1) \in DOMAIN probe.loaded.doc
  /\ state_file.kind = "json"
  /\ (today - RetentionDays) \in DOMAIN state_file.doc

\* C18: canonicalize_url applied to its own result gives that result again,
\* for every URL and every strip-parameter list
C18_CanonIdempotent == probe.called => probe.twice = probe.once

\* C19: adding a parameter named in strip_query_params to the query of a URL,
\* as the only parameter or next to others, with any value, leaves the
\* canonical URL unchanged
C19_TrackingIgnored ==
  ( /\ probe.called
    /\ ~urlparse(probe.url).raises
    /\ \E i \in 1..Len(probe.strip_params) : probe.strip_params[i] = P_utm_source )
  => probe.of_tracked = probe.once

\* a URL that keeps a parameter of its own beside the added one
C19_Witness ==
  /\ probe.called
  /\ ~urlparse(probe.url).raises
  /\ probe.strip_params = <<P_utm_source>>
  /\ urlparse(probe.url).query # <<>>
  /\ urlparse(probe.once).query # <<>>
  /\ probe.tracked # probe.url
  /\ probe.of_tracked = probe.once

\* C20: both word-overlap rules give the same answer for a pair of titles and
\* for the pair reversed
C20_SimilarSymmetric ==
  probe.called =>
    /\ probe.similar_ab = probe.similar_ba
    /\ probe.overlap_ab = probe.overlap_ba

\* two titles of different word counts that both rules match
C20_Witness ==
  /\ probe.called
  /\ Cardinality(findall_words(lower(probe.a), <<>>, {})) <
       Cardinality(findall_words(lower(probe.b), <<>>, {}))
  /\ Cardinality(title_words(probe.a)) < Cardinality(title_words(probe.b))
  /\ probe.similar_ab
  /\ probe.overlap_ab

\* freshness.floor of the configuration, in thousandths
ConfiguredFloor == 10 * Get(Get(ranker_config, "freshness", Empty), "floor", 15)

\* C21 (freshness monotonicity): of two stories that differ only in
\* published_at, scored under one half-life and floor, the more recent one has
\* a freshness term that is not lower, and no freshness term is below the floor.
C21_FreshnessMonotone ==
  probe.called =>
    /\ probe.out_newer.freshness >= probe.out_older.freshness
    /\ probe.out_older.freshness >= ConfiguredFloor
    /\ probe.out_newer.freshness >= ConfiguredFloor

\* reached: the newer story is above the floor and the older one, whose decay
\* has fallen below the floor, sits on it
C21_Witness ==
  /\ probe.called
  /\ probe.newer.published_at < probe.older.published_at
  /\ ConfiguredFloor > 0
  /\ probe.out_newer.freshness > probe.out_older.freshness
  /\ probe.out_older.freshness = ConfiguredFloor
  /\ freshness_term_unfloored(0, probe.older.published_at,
        Get(Get(ranker_config, "freshness", Empty), "half_life_minutes", 720)) < ConfiguredFloor

\* the values of a function
Range(f) == {f[k] : k \in DOMAIN f}

\* the event weights score_story can read under a configuration
EventWeightsOf(v, config) ==
  Range(Get(config, "event_weights", Empty)) \cup
    (IF v = "private" THEN Range(private_event_weights) ELSE {})

\* the premise of the base-score range: the three scoring weights are not
\* negative and sum to at most 1 (100 hundredths), and trust, speed and every
\* event weight lie between 0 and 100
WithinLimits(v, config) ==
  LET scoring == Get(config, "scoring", Empty)
      sw      == Get(scoring, "source_weight", 45)
      ew      == Get(scoring, "event_weight", 40)
      fw      == Get(scoring, "freshness_weight", 15)
      rated   == Range(Get(config, "sources", Empty))
  IN  /\ sw >= 0 /\ ew >= 0 /\ fw >= 0
      /\ sw + ew + fw <= 100
      /\ \A src \in rated : /\ 0 <= Get(src, "trust", 40) /\ Get(src, "trust", 40) <= 100
                            /\ 0 <= Get(src, "speed", 50) /\ Get(src, "speed", 50) <= 100
      /\ \A w \in EventWeightsOf(v, config) : 0 <= w /\ w <= 100

\* C22 (base-score range): under weights that are not negative and sum to at
\* most 1, and ratings between 0 and 100, the base score of score_story lies
\* between 0 and 100 (in 1/10000 point: 0 and 1000000) for every tag list and
\* every age.
C22_BaseInRange ==
  (probe.called /\ WithinLimits(vertical, ranker_config)) =>
    (0 <= probe.out.base /\ probe.out.base <= 1000000)

\* C23 (explanation consistency): why_ranked names the primary tag of the
\* story, the tag of the highest configured weight among its tags (the first
\* of them in vocabulary order), the weight printed beside it is the weight of
\* that tag, and the novelty penalty is decided on that same tag.
C23_ExplanationNamesPrimary ==
  (probe.called /\ probe.event_tags # <<>>) =>
    LET primary == primary_tag(vertical, ranker_config, probe.event_tags)
    IN  /\ probe.out.why.event = primary
        /\ probe.out.why.weight =
             tag_weight(vertical, Get(ranker_config, "event_weights", Empty), probe.out.why.event)
        /\ (primary \in probe.seen_tags) <=> (probe.out.why.novelty > 0)

\* the position of a scored story in the order the scoring loop took them:
\* the position of its cluster
ScoringPos(s) == CHOOSE i \in 1..Len(last.clusters) : last.clusters[i].key = s.cluster_key

\* C24 (novelty penalty scope): a story of the entity just processed carries
\* the novelty penalty if and only if a story of that entity scored before it
\* in this call has the same primary tag; the first story of a primary tag
\* carries none.
C24_NoveltyScope ==
  \A k \in 1..Len(last.scored) :
    LET s == last.scored[k]
        earlier == {j \in 1..Len(last.scored) : ScoringPos(last.scored[j]) < ScoringPos(s)}
    IN  (s.why_ranked.novelty > 0) <=>
          \E j \in earlier :
            primary_tag(vertical, ranker_config, last.scored[j].tags)
              = primary_tag(vertical, ranker_config, s.tags)

\* the record of the call that gave a story its title: the last record of the
\* story's cluster
Representative(s) ==
  LET members == {i \in 1..Len(probe.raw) :
                    /\ probe.raw[i].url # NoUrl
                    /\ probe.raw[i].title # <<>>
                    /\ cluster_key(vertical, probe.raw[i]) = s.cluster_key}
  IN  probe.raw[CHOOSE i \in members : \A j \in members : j <= i]

\* the tags of the vocabulary that have a keyword in the text
MatchedTags(v, text) ==
  {patterns(v)[i].tag : i \in {k \in 1..Len(patterns(v)) :
      \E n \in 1..Len(patterns(v)[k].keywords) : Contains(text, patterns(v)[k].keywords[n])}}

\* the position of a tag in the vocabulary
VocabularyPos(v, tag) == CHOOSE i \in 1..Len(patterns(v)) : patterns(v)[i].tag = tag

\* C25 (tagging): every story of the entity just processed carries exactly the
\* tags that have a keyword in the lower-cased title and snippet, the snippet
\* being the description the collector returned, in vocabulary order; it
\* carries [other] alone when no tag matches, and its tag list is never empty.
C25_TaggedByTitleAndSnippet ==
  probe.called =>
    \A k \in 1..Len(last.scored) :
      LET s       == last.scored[k]
          rep     == Representative(s)
          text    == lower(rep.title \o <<" ">> \o Get(rep, "description", <<>>))
          matched == MatchedTags(vertical, text)
      IN  /\ s.tags # <<>>
          /\ IF matched = {} THEN s.tags = <<"other">>
             ELSE /\ SeqSet(s.tags) = matched
                  /\ \A i, j \in 1..Len(s.tags) :
                       i < j => VocabularyPos(vertical, s.tags[i]) < VocabularyPos(vertical, s.tags[j])

\* the positions of the input list deduplicate did not keep: a candidate
\* given n times and kept k times is removed n - k times
RemovedCandidates ==
  {c \in SeqSet(probe.candidates) :
     Cardinality({i \in 1..Len(probe.candidates) : probe.candidates[i] = c})
       > Cardinality({i \in 1..Len(probe.kept) : probe.kept[i] = c})}

\* C26 (AI-news deduplication): in the output of deduplicate no two kept
\* candidates have similar titles, the kept candidates are in descending
\* score_candidate order, and every removed candidate is similar to a kept
\* candidate whose score is greater than or equal to its own.
C26_DedupeKeepsBest ==
  probe.called =>
    /\ \A i, j \in 1..Len(probe.kept) :
         i # j => ~similar(probe.kept[i].title, probe.kept[j].title)
    /\ \A i, j \in 1..Len(probe.kept) :
         i < j => score_candidate(probe.kept[i]) >= score_candidate(probe.kept[j])
    /\ \A c \in RemovedCandidates :
         \E i \in 1..Len(probe.kept) :
           /\ similar(c.title, probe.kept[i].title)
           /\ score_candidate(probe.kept[i]) >= score_candidate(c)

\* reached: the list is given in ascending score order, a candidate is removed
\* for a similar one given after it, and two kept titles are each similar to
\* the removed one
C26_Witness ==
  /\ probe.called
  /\ Len(probe.candidates) = 3
  /\ \A i, j \in 1..3 :
       i < j => score_candidate(probe.candidates[i]) < score_candidate(probe.candidates[j])
  /\ Len(probe.kept) = 2
  /\ probe.kept[1] = probe.candidates[3]
  /\ \E c \in RemovedCandidates :
       \A i \in 1..2 : similar(c.title, probe.kept[i].title)

\* C27 (no duplicate in the persisted lists): the URL list the state file
\* holds under any date names no canonical URL twice, after any sequence of
\* runs.
C27_PersistedUrlsDistinct ==
  state_file.kind = "json" =>
    \A d \in DOMAIN state_file.doc :
      \A i, j \in 1..Len(state_file.doc[d].urls) :
        i # j => state_file.doc[d].urls[i] # state_file.doc[d].urls[j]

\* what a call of process_ticker / process_company gives for the entity, with
\* the order inside each list left out: the stories of either tier (title,
\* URL, score, why_ranked, tags) and the canonical URLs it records
EntityOutput(out) ==
  [returned |-> out.returned,
   top      |-> SeqSet(out.result.top_stories),
   glance   |-> SeqSet(out.result.glance),
   urls     |-> SeqSet(out.included_urls)]

\* C28 (order independence): the output of the entity just processed and the
\* URLs recorded for it are those the call gives on every other order of the
\* same collector results, under the same state, configuration and clock.
C28_OrderIndependent ==
  probe.called =>
    \A p \in Permutations(1..Len(probe.raw)) :
      EntityOutput(process_ticker(vertical, tickers[1], ranker_config, seen_state,
                                  [i \in 1..Len(probe.raw) |-> probe.raw[p[i]]]))
        = EntityOutput(last)

\* the dates a file records and what it records under each
Persisted(file) == IF file.kind = "json" /\ file.top = "object" THEN file.doc ELSE Empty

\* the dates of a document that lie inside the retention window of a day
InWindow(doc, day) == {d \in DOMAIN doc : d >= day - RetentionDays}

\* C29 (frame of the state file): while a run has included no story the state
\* file is the one the run found, with no entry added and no date pruned; and
\* when a run has written the file, every date of the old file inside the
\* retention window is still there, unchanged but for the URLs appended to
\* the entry of the run's date.
C29_StateFileFrame ==
  runs > 0 =>
    /\ all_included_urls = <<>> => state_file = probe.loaded
    /\ state_file # probe.loaded =>
         \A d \in InWindow(Persisted(probe.loaded), today) :
           /\ d \in DOMAIN Persisted(state_file)
           /\ IF d = today
              THEN LET old == Persisted(probe.loaded)[d].urls
                       new == Persisted(state_file)[d].urls
                   IN  Len(old) <= Len(new) /\ SubSeq(new, 1, Len(old)) = old
              ELSE Persisted(state_file)[d] = Persisted(probe.loaded)[d]

\* reached: the second run of a day has written the file; the entry of the
\* day keeps the URLs of the first run, followed by the new ones
C29_Witness ==
  /\ runs = 2
  /\ pc = "returned"
  /\ state_written
  /\ state_file # probe.loaded
  /\ today \in DOMAIN Persisted(probe.loaded)
  /\ Persisted(probe.loaded)[today].urls # <<>>
  /\ Len(Persisted(state_file)[today].urls) > Len(Persisted(probe.loaded)[today].urls)
  /\ DOMAIN Persisted(probe.loaded) \ DOMAIN Persisted(state_file) = {}

\* a host with a literal leading "www." removed, once
WithoutWww(h) ==
  IF Len(h) >= 4 /\ SubSeq(h, 1, 4) = Www THEN SubSeq(h, 5, Len(h)) ELSE h

\* C30 (domain mapping): for a URL whose host is a key h of DOMAIN_TO_SOURCE,
\* or "www." + h, in any letter case, map_domain_to_source returns
\* DOMAIN_TO_SOURCE[h]; only a literal leading "www." is removed, and every
\* other host maps to "unknown".
C30_DomainMapped ==
  probe.called =>
    LET table == DOMAIN_TO_SOURCE(vertical)
        host  == lower(probe.url.host)
    IN  probe.source =
          IF host \in DOMAIN table THEN table[host]
          ELSE IF WithoutWww(host) \in DOMAIN table THEN table[WithoutWww(host)]
          ELSE "unknown"

====
